---- MODULE Spec2Model ----
(***************************************************************************)
(* Model of the lineageOne client: the character inventory ledger          *)
(* (marketplace buy / sell / combine in src/marketplace.js, stack split    *)
(* in src/dashboard.js) together with the dialogs that feed it             *)
(* (src/modal.js), and the countdown of the landing page                   *)
(* (startCountdown in src/script.js) with the Date arithmetic it runs on.  *)
(*                                                                         *)
(* One browser tab is modelled: the marketplace page works on the          *)
(* character it loaded from localStorage and saves after every operation,  *)
(* the dashboard reads and writes localStorage on every click, so both     *)
(* see the same inventory value `inv`.                                     *)
(***************************************************************************)
EXTENDS Integers, Sequences, FiniteSets, TLC

\* ------------------------------------------------------------------------
\* Bounds of the model
\* ------------------------------------------------------------------------
MaxInput == 3           \* largest number typed into a quantity dialog
MaxOps == 2             \* operations explored after the session starts
MaxTicks == 3           \* callbacks of the countdown's interval explored
MaxCalls == 4           \* show / confirm / cancel calls on one modal explored
MaxSteps == 4           \* handler runs explored with two pages open
MaxClicks == 2          \* storage-panel clicks of the hosted dashboard in flight

\* ------------------------------------------------------------------------
\* JavaScript values
\* ------------------------------------------------------------------------
\* parseInt of a non-numeric string; a number outside every modelled range
NaN == 0 - 1000000
\* an optional numeric field (enchantment) that is absent from the object
NoEnchantment == 0 - 1
\* an optional boolean field (droppable, splittable) that is absent
Undefined == "undefined"

isNaN(x) == x = NaN

JsMul(a, b) == IF isNaN(a) \/ isNaN(b) THEN NaN ELSE a * b
JsAdd(a, b) == IF isNaN(a) \/ isNaN(b) THEN NaN ELSE a + b
JsSub(a, b) == IF isNaN(a) \/ isNaN(b) THEN NaN ELSE a - b
\* every comparison with NaN is false
JsLt(a, b) == ~isNaN(a) /\ ~isNaN(b) /\ a < b
JsLe(a, b) == ~isNaN(a) /\ ~isNaN(b) /\ a <= b
JsGt(a, b) == ~isNaN(a) /\ ~isNaN(b) /\ a > b
JsGe(a, b) == ~isNaN(a) /\ ~isNaN(b) /\ a >= b

\* ------------------------------------------------------------------------
\* Item stacks and the market catalog
\* ------------------------------------------------------------------------
Adena == "Adena"

Stack(id, name, quantity, stackable, price, enchantment, droppable, splittable) ==
    [id |-> id, name |-> name, quantity |-> quantity, stackable |-> stackable,
     price |-> price, enchantment |-> enchantment, droppable |-> droppable,
     splittable |-> splittable]

\* units granted per purchased Arrow
ArrowBundle == 50

\* marketGoods: name, price, stackable and the optional bundle size
\* (quantity = 0 stands for the absent field, which `|| 1` reads as 1)
marketGoods ==
    { [name |-> "Arrow", price |-> 1, stackable |-> TRUE, quantity |-> ArrowBundle],
      [name |-> "Red Potion", price |-> 2, stackable |-> TRUE, quantity |-> 0],
      [name |-> "Sword", price |-> 3, stackable |-> FALSE, quantity |-> 0] }

\* stacks as STARTER_INVENTORY_JSON and earlier purchases leave them, before
\* their identifiers are assigned
AdenaStack(q) == Stack(0, Adena, q, TRUE, 1, NoEnchantment, Undefined, Undefined)
Potion(q, enchantment) == Stack(0, "Red Potion", q, TRUE, 2, enchantment, Undefined, Undefined)
Arrows(q) == Stack(0, "Arrow", q, TRUE, 1, NoEnchantment, "true", "false")
TShirt == Stack(0, "T-shirt", 1, FALSE, 3, NoEnchantment, "false", Undefined)
Sword == Stack(0, "Sword", 1, FALSE, 3, NoEnchantment, Undefined, Undefined)

\* create-character: every starter stack gets its own identifier
WithIds(stacks) == [i \in 1..Len(stacks) |-> [stacks[i] EXCEPT !.id = i]]

AdenaCount(inv) == Cardinality({i \in 1..Len(inv) : inv[i].name = Adena})

\* the inventories a session may start from
StarterInventories ==
    { WithIds(s) : s \in
        { <<>>,
          <<AdenaStack(2)>>,
          <<Potion(3, NoEnchantment)>>,
          <<AdenaStack(5), Potion(3, NoEnchantment), TShirt>>,
          <<Potion(1, NoEnchantment), Potion(3, 0)>>,
          <<Potion(3, 0), Sword, Potion(2, 1)>>,
          <<Sword, AdenaStack(2), Sword>>,
          <<Arrows(3), AdenaStack(2)>>,
          <<TShirt, Potion(2, 1)>>,
          <<Potion(2, NoEnchantment), AdenaStack(3), Potion(3, NoEnchantment)>> } }

\* ------------------------------------------------------------------------
\* Array helpers
\* ------------------------------------------------------------------------
Min(S) == CHOOSE x \in S : \A y \in S : x <= y

\* the element of a one-element set.  A value that is used several times is
\* bound as the element of {value}: it is then computed once.
TheOne(S) == CHOOSE x \in S : TRUE

\* Array.prototype.find over the indices that satisfy the callback: the
\* first of them, 0 if there is none
First(hits) == IF hits = {} THEN 0 ELSE Min(hits)

\* stacks with the element at index i left out
Without(stacks, i) == SubSeq(stacks, 1, i - 1) \o SubSeq(stacks, i + 1, Len(stacks))

\* inventory.find(i => i.name === 'Adena')
AdenaIndex(inv) == First({i \in 1..Len(inv) : inv[i].name = Adena})

\* inventory.find(i => i.name === name && i.stackable === true)
StackableIndex(inv, name) ==
    First({i \in 1..Len(inv) : inv[i].name = name /\ inv[i].stackable = TRUE})

\* inventory.find(i => i.id === id)
IndexOfId(inv, id) == First({i \in 1..Len(inv) : inv[i].id = id})

\* currency balance: quantity of the first Adena stack, 0 if there is none
Balance(inv) ==
    LET a == AdenaIndex(inv) IN IF a = 0 THEN 0 ELSE inv[a].quantity

\* ------------------------------------------------------------------------
\* Marketplace ledger (src/marketplace.js)
\* ------------------------------------------------------------------------
\* mutation of NotEnoughAdena: the funds check is skipped
NotEnoughAdena_Skipped(playerAdena, totalPrice) == FALSE

\* the 'Not Enough Adena' test of buyItems
NotEnoughAdena(playerAdena, totalPrice) == JsLt(playerAdena, totalPrice)

\* mutation of TotalQuantityToAdd: the bundle size is ignored
TotalQuantityToAdd_NoBundle(itemToBuy, quantity) == quantity

\* units a purchase adds: bundle size (default 1) times the quantity bought
TotalQuantityToAdd(itemToBuy, quantity) ==
    LET itemBaseQuantity == IF itemToBuy.quantity = 0 THEN 1 ELSE itemToBuy.quantity
    IN JsMul(itemBaseQuantity, quantity)

\* buyItems(itemToBuy, quantity); newId is the value generateUUID returns.
\* ok = FALSE is the 'Not Enough Adena' early return.
buyItems(inv, itemToBuy, quantity, newId) ==
    LET adenaStack == AdenaIndex(inv)
        playerAdena == IF adenaStack # 0 THEN inv[adenaStack].quantity ELSE 0
        totalPrice == JsMul(itemToBuy.price, quantity)
        paid == IF adenaStack # 0
                THEN [inv EXCEPT ![adenaStack].quantity = JsSub(@, totalPrice)]
                ELSE inv
        totalQuantityToAdd == TotalQuantityToAdd(itemToBuy, quantity)
        existingStack == StackableIndex(paid, itemToBuy.name)
    IN IF NotEnoughAdena(playerAdena, totalPrice)
       THEN [ok |-> FALSE, inv |-> inv]
       ELSE [ok |-> TRUE,
             inv |-> IF existingStack # 0
                     THEN [paid EXCEPT ![existingStack].quantity = JsAdd(@, totalQuantityToAdd)]
                     ELSE Append(paid, Stack(newId, itemToBuy.name, totalQuantityToAdd,
                                             itemToBuy.stackable, itemToBuy.price,
                                             NoEnchantment, "true", Undefined))]

\* mutation of SoldOut: a sale of exactly the whole stack keeps the stack
SoldOut_Strict(quantityToSell, stackQuantity) == JsGt(quantityToSell, stackQuantity)

\* the test of sellItems that removes the stack instead of decrementing it
SoldOut(quantityToSell, stackQuantity) == JsGe(quantityToSell, stackQuantity)

\* mutation of sellItems: the sale is credited with the unit price, whatever
\* the quantity sold
sellItems_UnitCredit(inv, idx, quantityToSell, newId) ==
    LET itemToSell == inv[idx]
        totalSaleValue == itemToSell.price
        taken == IF JsGe(quantityToSell, itemToSell.quantity)
                 THEN SelectSeq(inv, LAMBDA s : s.id # itemToSell.id)
                 ELSE [inv EXCEPT ![idx].quantity = JsSub(@, quantityToSell)]
        adenaStack == AdenaIndex(taken)
    IN IF adenaStack # 0
       THEN [taken EXCEPT ![adenaStack].quantity = JsAdd(@, totalSaleValue)]
       ELSE Append(taken, Stack(newId, Adena, totalSaleValue, TRUE, 1,
                                NoEnchantment, "true", Undefined))

\* sellItems(itemToSell, quantityToSell); itemToSell is inv[idx]
sellItems(inv, idx, quantityToSell, newId) ==
    LET itemToSell == inv[idx]
        sellPrice == itemToSell.price
        totalSaleValue == JsMul(sellPrice, quantityToSell)
        taken == IF SoldOut(quantityToSell, itemToSell.quantity)
                 THEN SelectSeq(inv, LAMBDA s : s.id # itemToSell.id)
                 ELSE [inv EXCEPT ![idx].quantity = JsSub(@, quantityToSell)]
        adenaStack == AdenaIndex(taken)
    IN IF adenaStack # 0
       THEN [taken EXCEPT ![adenaStack].quantity = JsAdd(@, totalSaleValue)]
       ELSE Append(taken, Stack(newId, Adena, totalSaleValue, TRUE, 1,
                                NoEnchantment, "true", Undefined))

\* mutation of CombineKey: stacks are grouped by name alone
CombineKey_NameOnly(item) == <<item.name, 0>>

\* the Map key `${item.name}_${item.enchantment || 0}`
CombineKey(item) ==
    <<item.name, IF item.enchantment = NoEnchantment THEN 0 ELSE item.enchantment>>

RECURSIVE SumQuantity(_)
SumQuantity(items) ==
    IF items = <<>> THEN 0
    ELSE JsAdd(SumQuantity(SubSeq(items, 1, Len(items) - 1)), items[Len(items)].quantity)

\* mutation of FirstSeen: a key counts as new when it differs from the key of
\* the item just before (only neighbours are recognised as the same group)
FirstSeen_Adjacent(items) ==
    {i \in 1..Len(items) : i = 1 \/ CombineKey(items[i - 1]) # CombineKey(items[i])}

\* indices (into the stackable items) at which a key is seen for the first time
FirstSeen(items) ==
    {i \in 1..Len(items) : \A j \in 1..(i - 1) : CombineKey(items[j]) # CombineKey(items[i])}

RECURSIVE Ascending(_)
Ascending(S) ==
    IF S = {} THEN <<>> ELSE <<Min(S)>> \o Ascending(S \ {Min(S)})

\* handleCombineItems; the k-th key seen gets the identifier firstId + k - 1
handleCombineItems(inv, firstId) ==
    LET nonStackableItems == SelectSeq(inv, LAMBDA s : s.stackable # TRUE)
        stackableItems == SelectSeq(inv, LAMBDA s : s.stackable = TRUE)
        firsts == Ascending(FirstSeen(stackableItems))
        combined == [k \in 1..Len(firsts) |->
                       LET item == stackableItems[firsts[k]]
                           group == SelectSeq(stackableItems,
                                       LAMBDA s : CombineKey(s) = CombineKey(item))
                       IN [item EXCEPT !.id = firstId + k - 1,
                                       !.quantity = SumQuantity(group)]]
    IN nonStackableItems \o combined

\* number of identifiers one handleCombineItems call generates
CombineIds(inv) ==
    Cardinality(FirstSeen(SelectSeq(inv, LAMBDA s : s.stackable = TRUE)))

\* mutation of HasSellButton: the droppable test is missing
HasSellButton_Always(item) == item.name # Adena

\* renderSellPanel: the stacks that get a Sell button
HasSellButton(item) == item.name # Adena /\ item.droppable # "false"

\* ------------------------------------------------------------------------
\* Dashboard storage panel (src/dashboard.js)
\* ------------------------------------------------------------------------
\* showCharacterDetails: the stacks that get a Split button
HasSplitButton(item) ==
    item.splittable # "false" /\ item.stackable = TRUE /\ JsGt(item.quantity, 1)

\* mutation of InvalidSplitQuantity: splitting off the whole stack passes
InvalidSplitQuantity_WholeStack(itemToSplit, quantityToSplit) ==
    \/ isNaN(quantityToSplit)
    \/ quantityToSplit <= 0
    \/ quantityToSplit > itemToSplit.quantity

\* the prompt check of handleStorageClick
InvalidSplitQuantity(itemToSplit, quantityToSplit) ==
    \/ isNaN(quantityToSplit)
    \/ quantityToSplit <= 0
    \/ quantityToSplit >= itemToSplit.quantity

\* mutation of splitItem: the source stack keeps its quantity
splitItem_SourceKept(inv, idx, quantityToSplit, newId) ==
    Append(inv, [inv[idx] EXCEPT !.id = newId, !.quantity = quantityToSplit])

\* the split itself: reduce the source, push the copy with the new identifier
splitItem(inv, idx, quantityToSplit, newId) ==
    Append([inv EXCEPT ![idx].quantity = @ - quantityToSplit],
           [inv[idx] EXCEPT !.id = newId, !.quantity = quantityToSplit])

\* alphabetical position of an item name, as localeCompare orders the names
NameRank(name) ==
    CASE name = Adena -> 1
      [] name = "Arrow" -> 2
      [] name = "Red Potion" -> 3
      [] name = "Sword" -> 4
      [] name = "T-shirt" -> 5

\* the comparator of showCharacterDetails: unique items first, then by name
StorageOrder(a, b) ==
    IF a.stackable = b.stackable
    THEN (IF NameRank(a.name) < NameRank(b.name) THEN 0 - 1
          ELSE IF NameRank(a.name) > NameRank(b.name) THEN 1 ELSE 0)
    ELSE IF a.stackable = TRUE THEN 1 ELSE 0 - 1

\* inventory.sort(...) of showCharacterDetails (stable)
RECURSIVE sortStorage(_)
sortStorage(inventory) ==
    IF Len(inventory) <= 1 THEN inventory
    ELSE TheOne({ TheOne({ SubSeq(front, 1, at) \o <<inventory[Len(inventory)]>>
                               \o SubSeq(front, at + 1, Len(front))
                           : at \in {Cardinality({i \in 1..Len(front) :
                                        StorageOrder(front[i], inventory[Len(inventory)]) <= 0})} })
                  : front \in {sortStorage(SubSeq(inventory, 1, Len(inventory) - 1))} })

\* ------------------------------------------------------------------------
\* The sale behind the Sell dialog (src/marketplace.js)
\* ------------------------------------------------------------------------
\* The Sell button's handler keeps the object itemToSell it found in the
\* active character's inventory; the dialogs call sellItems with it later.
\* ref names that object: the character whose inventory held it (owner), its
\* id, whether it is still an element of that inventory (live), and its
\* fields when it is not (copy).
StackOf(chars, ref) ==
    IF ref.live THEN chars[ref.owner][IndexOfId(chars[ref.owner], ref.id)] ELSE ref.copy

\* sellItems(itemToSell, quantityToSell) on the characters in memory, for the
\* character that is active when it runs
sellItemsOf(chars, active, ref, quantityToSell, newId) ==
    LET itemToSell == StackOf(chars, ref)
        totalSaleValue == JsMul(itemToSell.price, quantityToSell)
        taken == IF SoldOut(quantityToSell, itemToSell.quantity)
                 THEN [chars EXCEPT ![active] = SelectSeq(@, LAMBDA s : s.id # itemToSell.id)]
                 ELSE IF ref.live
                 THEN [chars EXCEPT ![ref.owner][IndexOfId(chars[ref.owner], ref.id)].quantity =
                                        JsSub(@, quantityToSell)]
                 ELSE chars
        adenaStack == AdenaIndex(taken[active])
    IN IF adenaStack # 0
       THEN [taken EXCEPT ![active][adenaStack].quantity = JsAdd(@, totalSaleValue)]
       ELSE [taken EXCEPT ![active] = Append(@, Stack(newId, Adena, totalSaleValue, TRUE, 1,
                                                       NoEnchantment, "true", Undefined))]

\* ------------------------------------------------------------------------
\* Hosted-store dashboard (src/unnamed/part_004)
\* ------------------------------------------------------------------------
\* indices (into the stackable items) at which a name is seen for the first time
FirstOfName(items) ==
    {i \in 1..Len(items) : \A j \in 1..(i - 1) : items[j].name # items[i].name}

\* the Combine button of the storage panel: the Map is keyed by item.name,
\* the first stack of a name is copied (its id included) and collects the
\* quantities of every later stack of that name
combineStacks(inventory) ==
    LET combinedInventory == SelectSeq(inventory, LAMBDA s : s.stackable # TRUE)
        stackableItems == SelectSeq(inventory, LAMBDA s : s.stackable = TRUE)
        firsts == Ascending(FirstOfName(stackableItems))
        values == [k \in 1..Len(firsts) |->
                     LET item == stackableItems[firsts[k]]
                         group == SelectSeq(stackableItems, LAMBDA s : s.name = item.name)
                     IN [item EXCEPT !.quantity = SumQuantity(group)]]
    IN combinedInventory \o values

\* ------------------------------------------------------------------------
\* Quantity dialog (src/modal.js)
\* ------------------------------------------------------------------------
\* what the user may leave in the quantity input or type into a prompt;
\* NaN stands for every text parseInt cannot read
DialogValues == {NaN} \cup ((0 - 1)..MaxInput)

\* showQuantityModal: the quantities handed to onConfirm when the user
\* confirms with `value` in the input.  With the quantity modal on the page
\* (modalPresent) the parsed input is passed on as it is; the prompt
\* fallback drops anything that is not a number above 0.  Whether the page
\* holds the modal is not decided by the scripts, so callers allow both.
showQuantityModal(modalPresent, value) ==
    IF modalPresent
    THEN {value}
    ELSE IF ~isNaN(value) /\ value > 0 THEN {value} ELSE {}

\* ------------------------------------------------------------------------
\* JavaScript Date, as src/script.js uses it (local time of the browser)
\* ------------------------------------------------------------------------
\* A time value is kept as whole seconds since 2000-01-01T00:00:00Z plus the
\* milliseconds 0..999 within the second: [s |-> ..., ms |-> ...].

\* days from 2000-01-01 to the civil day y-m-d, m in 1..12 (Gregorian)
DaysFromCivil(y, m, d) ==
    LET yy == IF m <= 2 THEN y - 1 ELSE y
        era == yy \div 400
        yoe == yy - era * 400
        mp == IF m > 2 THEN m - 3 ELSE m + 9
        doy == (153 * mp + 2) \div 5 + d - 1
        doe == yoe * 365 + yoe \div 4 - yoe \div 100 + doy
    IN era * 146097 + doe - 730425

\* the civil day of a day number; month is 0..11 as getMonth() returns it
CivilFromDays(z) ==
    LET zz == z + 730425
        era == zz \div 146097
        doe == zz - era * 146097
        yoe == (doe - doe \div 1460 + doe \div 36524 - doe \div 146096) \div 365
        doy == doe - (365 * yoe + yoe \div 4 - yoe \div 100)
        mp == (5 * doy + 2) \div 153
        d == doy - (153 * mp + 2) \div 5 + 1
        m == IF mp < 10 THEN mp + 3 ELSE mp - 9
    IN [year |-> yoe + era * 400 + (IF m <= 2 THEN 1 ELSE 0), month |-> m - 1, date |-> d]

\* MakeDay: month (0-based) may run past 11 and date past the month's end;
\* both roll over into the following months
MakeDay(year, month, date) ==
    DaysFromCivil(year + month \div 12, (month % 12) + 1, 1) + date - 1

\* the time zones a browser may run in: one without and one with
\* daylight-saving time
TimeZones == {"UTC", "Europe/Berlin"}

StandardOffset(tz) == IF tz = "UTC" THEN 0 ELSE 3600

\* the periods (in UTC seconds, end excluded) in which the zone's clocks are
\* one hour ahead of its standard time
SummerTime(tz) ==
    IF tz = "UTC" THEN {}
    ELSE { <<MakeDay(2024, 2, 31) * 86400 + 3600, MakeDay(2024, 9, 27) * 86400 + 3600>>,
           <<MakeDay(2025, 2, 30) * 86400 + 3600, MakeDay(2025, 9, 26) * 86400 + 3600>>,
           <<MakeDay(2026, 2, 29) * 86400 + 3600, MakeDay(2026, 9, 25) * 86400 + 3600>>,
           <<MakeDay(2027, 2, 28) * 86400 + 3600, MakeDay(2027, 9, 31) * 86400 + 3600>> }

InSummerTime(tz, utc) == \E p \in SummerTime(tz) : p[1] <= utc /\ utc < p[2]

\* seconds the zone's clocks are ahead of UTC at the instant utc
Offset(tz, utc) == StandardOffset(tz) + (IF InSummerTime(tz, utc) THEN 3600 ELSE 0)

\* the instant of a local clock reading: the earlier instant when the reading
\* occurs twice, the reading taken with the standard offset when the clocks
\* skip it
LocalToUtc(tz, local) ==
    LET early == local - StandardOffset(tz) - 3600
    IN IF InSummerTime(tz, early) THEN early ELSE local - StandardOffset(tz)

\* getFullYear, getMonth, getDate, getHours, getMinutes, getSeconds,
\* getMilliseconds of a time value
LocalFields(tz, t) ==
    TheOne({ [year |-> c.year, month |-> c.month, date |-> c.date,
              hours |-> (local % 86400) \div 3600, minutes |-> (local % 3600) \div 60,
              seconds |-> local % 60, ms |-> t.ms]
             : local \in {t.s + Offset(tz, t.s)},
               c \in {CivilFromDays((t.s + Offset(tz, t.s)) \div 86400)} })

\* new Date(year, month, date, hours, minutes, seconds, ms)
NewDate(tz, year, month, date, hours, minutes, seconds, ms) ==
    [s |-> LocalToUtc(tz, MakeDay(year, month, date) * 86400
                            + hours * 3600 + minutes * 60 + seconds),
     ms |-> ms]

\* new Date('YYYY-MM-DDTHH:mm:ss'): a date-time string without a zone is
\* local time; mo is 1..12 as in the string
ParseDate(tz, y, mo, d, h, mi, sec, ms) == NewDate(tz, y, mo - 1, d, h, mi, sec, ms)

\* the time value of an Invalid Date is NaN
InvalidDate == [s |-> NaN, ms |-> 0]

\* 1970-01-01T00:00:00Z, the time value 0
Epoch == [s |-> 0 - 946684800, ms |-> 0]

\* the date-time texts that occur, with the fields Date.parse reads from them
DateTexts ==
    { <<"2027-08-10T00:00:00", <<2027, 8, 10, 0, 0, 0>> >>,
      <<"2027-03-20T06:30:15", <<2027, 3, 20, 6, 30, 15>> >>,
      <<"2025-11-15T00:00:00", <<2025, 11, 15, 0, 0, 0>> >>,
      <<"2025-03-01T12:00:00", <<2025, 3, 1, 12, 0, 0>> >>,
      <<"2025-03-02T23:59:59", <<2025, 3, 2, 23, 59, 59>> >>,
      <<"2025-03-30T03:15:00", <<2025, 3, 30, 3, 15, 0>> >> }

\* a text Date.parse reads as a date-time
IsDateText(text) == \E e \in DateTexts : e[1] = text

\* A JavaScript value that is a boolean or a string
JsBoolean(b) == [type |-> "boolean", bool |-> b, text |-> ""]
JsString(text) == [type |-> "string", bool |-> FALSE, text |-> text]

\* the value as a condition: false and the empty string are falsy
Truthy(v) == IF v.type = "boolean" THEN v.bool ELSE v.text # ""

\* new Date(value): a string is parsed (a date-time without offset is local
\* time, any other text gives an Invalid Date), a boolean is converted to
\* the number 0 or 1 and taken as milliseconds since the epoch
DateOf(tz, v) ==
    IF v.type = "boolean"
    THEN [Epoch EXCEPT !.ms = IF v.bool THEN 1 ELSE 0]
    ELSE IF IsDateText(v.text)
    THEN TheOne({ ParseDate(tz, e[2][1], e[2][2], e[2][3], e[2][4], e[2][5], e[2][6], 0)
                  : e \in {x \in DateTexts : x[1] = v.text} })
    ELSE InvalidDate

\* temp.setFullYear(year): every other local field, milliseconds included, stays
setFullYear(tz, t, year) ==
    TheOne({ NewDate(tz, year, f.month, f.date, f.hours, f.minutes, f.seconds, f.ms)
             : f \in {LocalFields(tz, t)} })

\* temp.setMonth(month)
setMonth(tz, t, month) ==
    TheOne({ NewDate(tz, f.year, month, f.date, f.hours, f.minutes, f.seconds, f.ms)
             : f \in {LocalFields(tz, t)} })

\* new Date(t.getTime() + ms)
AddMs(t, ms) == [s |-> t.s + (t.ms + ms) \div 1000, ms |-> (t.ms + ms) % 1000]

\* a <= b and a >= b on Date objects
DateLe(a, b) == a.s < b.s \/ (a.s = b.s /\ a.ms <= b.ms)
DateGe(a, b) == DateLe(b, a)

\* launchDate - temp in milliseconds, kept as [s, ms] with 0 <= ms < 1000
\* (the value is s * 1000 + ms; s is negative when temp is later)
DateDiff(a, b) ==
    IF a.ms - b.ms < 0 THEN [s |-> a.s - b.s - 1, ms |-> a.ms - b.ms + 1000]
                       ELSE [s |-> a.s - b.s, ms |-> a.ms - b.ms]

\* ------------------------------------------------------------------------
\* Countdown timer (src/script.js, startCountdown)
\* ------------------------------------------------------------------------
\* the period handed to setInterval
TickPeriod == 1000

\* the first loop: whole years, tested on a Date built without milliseconds.
\* f holds the local fields of temp at the start of an iteration.
RECURSIVE yearsLoop(_, _, _, _)
yearsLoop(tz, temp, years, launchDate) ==
    TheOne({ IF DateLe(NewDate(tz, f.year + 1, f.month, f.date,
                               f.hours, f.minutes, f.seconds, 0), launchDate)
             THEN yearsLoop(tz, setFullYear(tz, t, f.year + 1), n + 1, launchDate)
             ELSE [temp |-> t, years |-> n]
             : t \in {temp}, n \in {years}, f \in {LocalFields(tz, temp)} })

\* the second loop: whole months, tested on a copy of temp
RECURSIVE monthsLoop(_, _, _, _)
monthsLoop(tz, temp, months, launchDate) ==
    TheOne({ IF DateLe(test, launchDate)
             THEN monthsLoop(tz, setMonth(tz, t, LocalFields(tz, t).month + 1),
                             n + 1, launchDate)
             ELSE [temp |-> t, months |-> n]
             : t \in {temp}, n \in {months},
               test \in {setMonth(tz, temp, LocalFields(tz, temp).month + 1)} })

\* mutation of Rest: the unit's contribution stays in the remainder
Rest_Kept(diff, count, unit) == diff

\* diffMs -= count * unit (in seconds)
Rest(diff, count, unit) == diff - count * unit

\* the fixed-ratio part: days, hours, minutes and seconds of diffMs, given
\* as [s, ms], after the years y and months m
remaining(y, m, diffMs) ==
    LET days == diffMs.s \div 86400
        afterDays == Rest(diffMs.s, days, 86400)
        hours == afterDays \div 3600
        afterHours == Rest(afterDays, hours, 3600)
        minutes == afterHours \div 60
        afterMinutes == Rest(afterHours, minutes, 60)
        seconds == (afterMinutes * 1000 + diffMs.ms) \div 1000
    IN [kind |-> "breakdown", years |-> y.years, months |-> m.months, days |-> days,
        hours |-> hours, minutes |-> minutes, seconds |-> seconds, temp |-> m.temp]

\* the values one tick computes for now < launchDate, and the cursor temp
\* the two loops end on
breakdown(tz, now, launchDate) ==
    TheOne({ TheOne({ TheOne({ remaining(y, m, diffMs)
                               : diffMs \in {DateDiff(launchDate, m.temp)} })
                      : m \in {monthsLoop(tz, y.temp, 0, launchDate)} })
             : y \in {yearsLoop(tz, now, 0, launchDate)} })

\* the value loadServerProperties stores for the text after 'KEY=' of a key
\* that is neither numeric nor JSON: a boolean for true / false, else the text
PropertyValue(value) ==
    IF value \in {"true", "True", "TRUE"} THEN JsBoolean(TRUE)
    ELSE IF value \in {"false", "False", "FALSE"} THEN JsBoolean(FALSE)
    ELSE JsString(value)

\* the page's handler calls startCountdown
StartsCountdown(launchDateString, date) == Truthy(launchDateString) /\ ~isNaN(date.s)

\* String(value) of an integer, as the sequence of its characters
RECURSIVE Digits(_)
Digits(n) ==
    IF n < 10 THEN <<(<<"0", "1", "2", "3", "4", "5", "6", "7", "8", "9">>)[n + 1]>>
    ELSE Digits(n \div 10) \o Digits(n % 10)
String(value) == IF value < 0 THEN <<"-">> \o Digits(0 - value) ELSE Digits(value)

\* str.padStart(targetLength, padString) for a one-character padString
RECURSIVE padStart(_, _, _)
padStart(str, targetLength, padString) ==
    IF Len(str) >= targetLength THEN str
    ELSE padStart(<<padString>> \o str, targetLength, padString)

\* unitBlock: the displayValue of one unit
unitBlock(value, label) ==
    IF label = "Years" THEN String(value) ELSE padStart(String(value), 2, "0")

\* the six unit blocks written into the timer element for the values b
render(b) ==
    [kind |-> b.kind, years |-> b.years, months |-> b.months, days |-> b.days,
     hours |-> b.hours, minutes |-> b.minutes, seconds |-> b.seconds, temp |-> b.temp,
     values |-> <<unitBlock(b.years, "Years"), unitBlock(b.months, "Months"),
                  unitBlock(b.days, "Days"), unitBlock(b.hours, "Hours"),
                  unitBlock(b.minutes, "Minutes"), unitBlock(b.seconds, "Seconds")>>]

\* what the timer element shows: nothing the script wrote, 'Server is Live!',
\* or the six unit blocks
NoDisplay ==
    [kind |-> "none", years |-> 0, months |-> 0, days |-> 0, hours |-> 0,
     minutes |-> 0, seconds |-> 0, temp |-> [s |-> 0, ms |-> 0], values |-> <<>>]
Live == [NoDisplay EXCEPT !.kind = "live"]

\* ------------------------------------------------------------------------
\* Drop-rate browser (src/droplist.js)
\* ------------------------------------------------------------------------
\* A name is the sequence of its characters.  The letters that occur, in
\* alphabetical order, as lower and upper case.
LowerCase == <<"a", "b", "d", "e", "n", "o", "r", "t", "w">>
UpperCase == <<"A", "B", "D", "E", "N", "O", "R", "T", "W">>

\* position of a lower-case letter in the alphabet
Rank(c) == CHOOSE i \in 1..Len(LowerCase) : LowerCase[i] = c

\* str.toLowerCase()
toLowerCase(str) ==
    [i \in 1..Len(str) |->
        IF \E k \in 1..Len(UpperCase) : UpperCase[k] = str[i]
        THEN LowerCase[CHOOSE k \in 1..Len(UpperCase) : UpperCase[k] = str[i]]
        ELSE str[i]]

\* str.includes(term)
includes(str, term) ==
    \E i \in 0..(Len(str) - Len(term)) : SubSeq(str, i + 1, i + Len(term)) = term

\* a.localeCompare(b) for lower-case names: -1, 0 or 1
localeCompare(a, b) ==
    LET differ == {i \in 1..Len(a) : i <= Len(b) /\ a[i] # b[i]}
    IN IF differ # {}
       THEN IF Rank(a[Min(differ)]) < Rank(b[Min(differ)]) THEN 0 - 1 ELSE 1
       ELSE IF Len(a) < Len(b) THEN 0 - 1
       ELSE IF Len(a) > Len(b) THEN 1
       ELSE 0

\* the comparator handed to sort: (a, b) => valA.localeCompare(valB) * direction
Compare(a, b, key, direction) ==
    localeCompare(toLowerCase(a[key]), toLowerCase(b[key])) * direction

\* Array.prototype.sort with that comparator; the sort is stable
\* the place of one more element after the sorted ones: behind every element
\* that does not compare greater
inserted(front, last, key, direction) ==
    TheOne({ SubSeq(front, 1, at) \o <<last>> \o SubSeq(front, at + 1, Len(front))
             : at \in {Cardinality({i \in 1..Len(front) :
                                      Compare(front[i], last, key, direction) <= 0})} })

RECURSIVE sort(_, _, _)
sort(list, key, direction) ==
    IF Len(list) <= 1 THEN list
    ELSE TheOne({ inserted(front, list[Len(list)], key, direction)
                  : front \in {sort(SubSeq(list, 1, Len(list) - 1), key, direction)} })

\* the direction sortDropList takes
NextOrder(sortState, key, initialSort) ==
    IF ~initialSort /\ sortState.key = key
    THEN (IF sortState.order = "asc" THEN "desc" ELSE "asc")
    ELSE "asc"

\* fullDropList.filter(drop => item or mob includes the term)
filter(list, searchTerm) ==
    SelectSeq(list, LAMBDA drop : \/ includes(toLowerCase(drop.item), searchTerm)
                                  \/ includes(toLowerCase(drop.mob), searchTerm))

\* Math.ceil(length / itemsPerPage)
TotalPages(length, itemsPerPage) == (length + itemsPerPage - 1) \div itemsPerPage

\* ------------------------------------------------------------------------
\* State
\* ------------------------------------------------------------------------
VARIABLES
    tz,                 \* time zone of the browser
    launchDateString,   \* serverProperties.DOWNLOAD_AVAILABLE_DATE
    serverTime,         \* startCountdown's first argument (the reference now)
    launchDate,         \* startCountdown's second argument (the target)
    elapsed,            \* Date.now() - clientStart, in milliseconds
    timerEl,            \* the page has the element with id "timer"
    timerInterval,      \* "none", "active" or "cleared"
    due,                \* the interval's period has passed, its callback is pending
    display,            \* what the timer element shows
    ticks,              \* callbacks run so far
    lastTick            \* the last callback: its now, and whether it computed a breakdown

countdownVars ==
    <<tz, launchDateString, serverTime, launchDate, elapsed, timerEl, timerInterval,
      due, display, ticks, lastTick>>

VARIABLES
    inv,                \* the character's inventory (array of item stacks)
    nextId,             \* the next identifier generateUUID returns
    op,                 \* the last operation: kind, target, quantity, result
    pre,                \* the inventory before the last operation
    inputsValid,        \* every quantity so far satisfied its precondition
    ops,                \* number of operations so far
    prev                \* the operation before the last and the inventory before it

vars == <<inv, nextId, op, pre, inputsValid, ops, prev>>

VARIABLES
    sortState,          \* { key, order } of the drop-rate browser
    fullDropList,       \* the complete list of drops
    currentList,        \* the filtered list that is paged and shown
    sameArray,          \* currentList is the array fullDropList itself
    currentPage,        \* the page shown
    itemsPerPage,       \* DROPLIST_ITEMS_PER_PAGE
    isLoaded,           \* loadDropList has finished
    searchInput,        \* the text in the search box
    searchTimeout,      \* the debounce timeout is pending
    lastEvent           \* the last handler that ran, and sortState before it

droplistVars ==
    <<sortState, fullDropList, currentList, sameArray, currentPage, itemsPerPage,
      isLoaded, searchInput, searchTimeout, lastEvent>>

VARIABLES
    modalHidden,        \* the modal element has the class 'hidden'
    modalOpen,          \* the modal element has the class 'open'
    modalListeners,     \* confirm, cancel, background and keydown listeners are attached
    modalTimers,        \* pending timeouts, in the order they were set: what and time left
    modalCalls          \* calls of show, confirm and cancel so far

modalVars == <<modalHidden, modalOpen, modalListeners, modalTimers, modalCalls>>

VARIABLES
    characters,         \* localStorage 'characters': the inventory stored for each character
    storedActive,       \* localStorage 'activeCharacter': the name in it
    userCharacters,     \* marketplace page: the characters it parsed when it loaded
    activeCharacter,    \* marketplace page: the name of the active one of them
    sellDialog,         \* marketplace page: the open Sell dialog and the stack it holds
    dashCharacters,     \* dashboard page: userCharacters, parsed when it loaded
    detailView,         \* dashboard page: the character detail view is shown
    shown,              \* dashboard page: the character and inventory last rendered
    uuid,               \* the next identifier generateUUID returns
    steps,              \* handler runs so far
    foreign,            \* the marketplace has written since the dashboard loaded
    tabOp,              \* the last handler that ran, and what it was given
    before              \* the stored and the marketplace's characters before it

tabVars ==
    <<characters, storedActive, userCharacters, activeCharacter, sellDialog,
      dashCharacters, detailView, shown, uuid, steps, foreign, tabOp, before>>

\* The hosted dashboard (src/unnamed/part_004): the character document in
\* the store and the handleStorageClick calls that are under way.
VARIABLES
    charDoc,            \* the inventory field of the stored character document
    charDocStart,       \* the same, when the detail view was opened
    clicks              \* the handleStorageClick calls, in the order of the clicks

hostedVars == <<charDoc, charDocStart, clicks>>

\* the variables a page's handlers leave alone: those of the other pages
besidesLedger == <<countdownVars, droplistVars, modalVars, tabVars, hostedVars>>
besidesCountdown == <<vars, droplistVars, modalVars, tabVars, hostedVars>>
besidesDroplist == <<vars, countdownVars, modalVars, tabVars, hostedVars>>
besidesModal == <<vars, countdownVars, droplistVars, tabVars, hostedVars>>
besidesTabs == <<vars, countdownVars, droplistVars, modalVars, hostedVars>>
besidesHosted == <<vars, countdownVars, droplistVars, modalVars, tabVars>>

\* no callback has run
NoTick == [now |-> [s |-> 0, ms |-> 0], computed |-> FALSE]

\* a page on which startCountdown was not called
NoCountdown ==
    /\ tz = "UTC"
    /\ launchDateString = JsString("")
    /\ serverTime = [s |-> 0, ms |-> 0]
    /\ launchDate = [s |-> 0, ms |-> 0]
    /\ elapsed = 0
    /\ timerEl = FALSE
    /\ timerInterval = "none"
    /\ due = FALSE
    /\ display = NoDisplay
    /\ ticks = 0
    /\ lastTick = NoTick

\* the state of droplist.js when its DOMContentLoaded handler starts
NoEvent == [kind |-> "none", before |-> [key |-> "item", order |-> "asc"]]

\* a page without the drop-rate browser
NoDroplist ==
    /\ sortState = [key |-> "item", order |-> "asc"]
    /\ fullDropList = <<>>
    /\ currentList = <<>>
    /\ sameArray = FALSE
    /\ currentPage = 1
    /\ itemsPerPage = 300
    /\ isLoaded = FALSE
    /\ searchInput = <<>>
    /\ searchTimeout = FALSE
    /\ lastEvent = NoEvent

\* a modal that was never shown: hidden, as the page's markup leaves it
NoModal ==
    /\ modalHidden = TRUE
    /\ modalOpen = FALSE
    /\ modalListeners = FALSE
    /\ modalTimers = <<>>
    /\ modalCalls = 0

\* the user's characters, in the order localStorage holds them
CharNames == <<"Knight", "Elf">>
Chars == {CharNames[i] : i \in 1..Len(CharNames)}

\* no Sell dialog is open
NoDialog ==
    [open |-> FALSE, owner |-> "", id |-> 0, live |-> FALSE, direct |-> FALSE,
     copy |-> Stack(0, "", 0, FALSE, 0, NoEnchantment, Undefined, Undefined)]

NoTabOp ==
    [page |-> "none", kind |-> "none", char |-> "", ref |-> NoDialog, name |-> "",
     quantity |-> 0, result |-> "none", newId |-> 0]

\* nothing rendered in the detail view
NothingShown == [name |-> "", inventory |-> <<>>]

\* no hosted dashboard is open
NoHosted ==
    /\ charDoc = <<>>
    /\ charDocStart = <<>>
    /\ clicks = <<>>

\* a browser without marketplace and dashboard pages
NoTabs ==
    /\ characters = [c \in Chars |-> <<>>]
    /\ storedActive = ""
    /\ userCharacters = [c \in Chars |-> <<>>]
    /\ activeCharacter = ""
    /\ sellDialog = NoDialog
    /\ dashCharacters = [c \in Chars |-> <<>>]
    /\ detailView = FALSE
    /\ shown = NothingShown
    /\ uuid = 1
    /\ steps = 0
    /\ foreign = FALSE
    /\ tabOp = NoTabOp
    /\ before = [stored |-> [c \in Chars |-> <<>>], memory |-> [c \in Chars |-> <<>>]]

NoOp == [kind |-> "none", name |-> "", id |-> 0, quantity |-> 0, result |-> "none"]

Init ==
    /\ inv \in StarterInventories
    /\ nextId = Len(inv) + 1
    /\ op = NoOp
    /\ pre = inv
    /\ inputsValid = TRUE
    /\ ops = 0
    /\ prev = [op |-> NoOp, pre |-> inv]
    /\ NoCountdown
    /\ NoDroplist
    /\ NoModal
    /\ NoTabs
    /\ NoHosted

\* one more operation of the session, while the explored depth allows
Step ==
    /\ ops < MaxOps
    /\ ops' = ops + 1
    /\ prev' = [op |-> op, pre |-> pre]
    /\ UNCHANGED besidesLedger

\* ------------------------------------------------------------------------
\* Marketplace handlers
\* ------------------------------------------------------------------------
\* Buy button -> quantity dialog -> confirmation -> buyItems, save
BuyItem(itemToBuy, value) ==
    /\ Step
    /\ \E modalPresent \in BOOLEAN : value \in showQuantityModal(modalPresent, value)
    /\ LET r == buyItems(inv, itemToBuy, value, nextId)
           newNextId == IF Len(r.inv) > Len(inv) THEN nextId + 1 ELSE nextId
       IN /\ inv' = r.inv
          /\ nextId' = newNextId
          /\ op' = [kind |-> "buy", name |-> itemToBuy.name, id |-> 0, quantity |-> value,
                    result |-> IF r.ok THEN "ok" ELSE "InsufficientFunds"]
    /\ pre' = inv
    /\ inputsValid' = (inputsValid /\ ~isNaN(value) /\ value >= 1)

\* Sell on a row of the sell panel -> (quantity dialog) -> confirmation ->
\* sellItems, save.  A row without a Sell button shows 'Untradable'.
SellItem(idx, value) ==
    /\ Step
    /\ idx \in 1..Len(inv)
    /\ inv[idx].name # Adena
    /\ IF ~HasSellButton(inv[idx])
       THEN /\ value = 1
            /\ op' = [kind |-> "sell", name |-> inv[idx].name, id |-> inv[idx].id,
                      quantity |-> 0, result |-> "NotSellable"]
            /\ UNCHANGED <<inv, nextId, inputsValid>>
       ELSE LET itemToSell == inv[idx]
                direct == itemToSell.stackable = FALSE \/ itemToSell.quantity = 1
                quantity == IF direct THEN 1 ELSE value
                newInv == sellItems(inv, idx, quantity, nextId)
                newNextId == IF AdenaCount(newInv) > AdenaCount(inv)
                             THEN nextId + 1 ELSE nextId
            IN /\ IF direct THEN value = 1
                            ELSE \E modalPresent \in BOOLEAN :
                                     value \in showQuantityModal(modalPresent, value)
               /\ inv' = newInv
               /\ nextId' = newNextId
               /\ op' = [kind |-> "sell", name |-> itemToSell.name, id |-> itemToSell.id,
                         quantity |-> quantity, result |-> "ok"]
               /\ inputsValid' = (inputsValid /\ JsGe(quantity, 1)
                                              /\ JsLe(quantity, itemToSell.quantity))
    /\ pre' = inv

\* Combine button -> handleCombineItems, save
CombineItems ==
    /\ Step
    /\ LET newInv == handleCombineItems(inv, nextId)
           newNextId == nextId + CombineIds(inv)
       IN /\ inv' = newInv
          /\ nextId' = newNextId
    /\ op' = [kind |-> "combine", name |-> "", id |-> 0, quantity |-> 0, result |-> "ok"]
    /\ pre' = inv
    /\ UNCHANGED inputsValid

\* ------------------------------------------------------------------------
\* Dashboard handler
\* ------------------------------------------------------------------------
\* the storage panel can be drawn only when every quantity is a number
\* (JSON stores NaN as null, and null.toLocaleString() throws)
StorageRenders(stored) == \A i \in 1..Len(stored) : ~isNaN(stored[i].quantity)

\* [S] on a row of the storage panel -> prompt -> split, save, re-render.
\* A row without the button cannot be split ("NotOffered").
SplitItem(idx, value) ==
    /\ Step
    /\ idx \in 1..Len(inv)
    /\ StorageRenders(inv)
    /\ LET itemToSplit == inv[idx]
       IN IF ~HasSplitButton(itemToSplit) \/ itemToSplit.quantity <= 1
          THEN /\ value = 1
               /\ op' = [kind |-> "split", name |-> itemToSplit.name, id |-> itemToSplit.id,
                         quantity |-> 0, result |-> "NotOffered"]
               /\ UNCHANGED <<inv, nextId>>
          ELSE IF InvalidSplitQuantity(itemToSplit, value)
          THEN /\ op' = [kind |-> "split", name |-> itemToSplit.name, id |-> itemToSplit.id,
                         quantity |-> value, result |-> "InvalidSplit"]
               /\ UNCHANGED <<inv, nextId>>
          ELSE /\ inv' = splitItem(inv, idx, value, nextId)
               /\ nextId' = nextId + 1
               /\ op' = [kind |-> "split", name |-> itemToSplit.name, id |-> itemToSplit.id,
                         quantity |-> value, result |-> "ok"]
    /\ pre' = inv
    /\ UNCHANGED inputsValid

Next ==
    \/ \E itemToBuy \in marketGoods, value \in DialogValues : BuyItem(itemToBuy, value)
    \/ \E idx \in 1..Len(inv), value \in DialogValues : SellItem(idx, value)
    \/ CombineItems
    \/ \E idx \in 1..Len(inv), value \in DialogValues : SplitItem(idx, value)

Spec == Init /\ [][Next]_vars

\* ------------------------------------------------------------------------
\* The landing page's countdown (src/script.js)
\* ------------------------------------------------------------------------
\* a page on which the marketplace and the dashboard are not in use
NoLedger ==
    /\ inv = <<>>
    /\ nextId = 1
    /\ op = NoOp
    /\ pre = <<>>
    /\ inputsValid = TRUE
    /\ ops = 0
    /\ prev = [op |-> NoOp, pre |-> <<>>]

\* the browsers, clock readings and configurations the page is loaded with:
\* <<time zone, new Date() at the call, the text after
\*   'DOWNLOAD_AVAILABLE_DATE=' in server.properties>>
Starts ==
    { <<"UTC", ParseDate("UTC", 2025, 1, 14, 23, 59, 59, 0), "2027-03-20T06:30:15">>,
      <<"UTC", ParseDate("UTC", 2026, 8, 9, 23, 59, 59, 400), "2027-08-10T00:00:00">>,
      <<"UTC", ParseDate("UTC", 2027, 8, 10, 0, 0, 0, 0), "2027-08-10T00:00:00">>,
      <<"Europe/Berlin", ParseDate("Europe/Berlin", 2027, 8, 11, 12, 0, 0, 250),
                         "2027-08-10T00:00:00">>,
      <<"UTC", ParseDate("UTC", 2027, 8, 9, 23, 59, 57, 500), "2027-08-10T00:00:00">>,
      <<"Europe/Berlin", ParseDate("Europe/Berlin", 2025, 10, 15, 0, 29, 59, 0),
                         "2025-11-15T00:00:00">>,
      <<"UTC", ParseDate("UTC", 2024, 2, 29, 11, 59, 59, 0), "2025-03-01T12:00:00">>,
      <<"UTC", ParseDate("UTC", 2025, 1, 30, 23, 59, 59, 0), "2025-03-02T23:59:59">>,
      <<"Europe/Berlin", ParseDate("Europe/Berlin", 2024, 3, 30, 2, 29, 59, 0),
                         "2025-03-30T03:15:00">>,
      <<"Europe/Berlin", ParseDate("Europe/Berlin", 2026, 11, 3, 10, 0, 0, 123),
                         "2027-08-10T00:00:00">>,
      <<"UTC", ParseDate("UTC", 2026, 11, 3, 10, 0, 0, 0), "">>,
      <<"UTC", ParseDate("UTC", 2026, 11, 3, 10, 0, 0, 0), "soon">>,
      <<"UTC", ParseDate("UTC", 2026, 11, 3, 10, 0, 0, 0), "false">>,
      <<"Europe/Berlin", ParseDate("Europe/Berlin", 2026, 11, 3, 10, 0, 0, 0), "true">> }

\* how long the browser may take from one callback to the next: the period
\* itself, a few milliseconds more, or longer when the tab is throttled
Delays == {TickPeriod, TickPeriod + 4, 2 * TickPeriod + 500}

\* the state the page's handler leaves: the launch date is read from the
\* configuration, and when it is usable startCountdown(new Date(),
\* launchDate) takes clientStart and sets the interval; nothing has been
\* rendered
CountdownInit ==
    /\ \E st \in Starts :
         /\ tz = st[1]
         /\ serverTime = st[2]
         /\ launchDateString = PropertyValue(st[3])
    /\ launchDate = DateOf(tz, launchDateString)
    /\ elapsed = 0
    /\ timerEl \in BOOLEAN
    /\ timerInterval = IF StartsCountdown(launchDateString, launchDate)
                       THEN "active" ELSE "none"
    /\ due = FALSE
    /\ display = NoDisplay
    /\ ticks = 0
    /\ lastTick = NoTick
    /\ NoLedger
    /\ NoDroplist
    /\ NoModal
    /\ NoTabs
    /\ NoHosted

\* time passes until the interval's callback is due again
Elapse(delay) ==
    /\ timerInterval = "active"
    /\ ~due
    /\ ticks < MaxTicks
    /\ elapsed' = elapsed + delay
    /\ due' = TRUE
    /\ UNCHANGED <<tz, launchDateString, serverTime, launchDate, timerEl, timerInterval,
                   display, ticks, lastTick>>
    /\ UNCHANGED besidesCountdown

\* the callback of setInterval
Tick ==
    /\ timerInterval = "active"
    /\ due
    /\ due' = FALSE
    /\ ticks' = ticks + 1
    /\ LET now == AddMs(serverTime, elapsed)
       IN IF ~timerEl
          THEN /\ lastTick' = [now |-> now, computed |-> FALSE]
               /\ UNCHANGED <<display, timerInterval>>
          ELSE IF DateGe(now, launchDate)
          THEN /\ display' = Live
               /\ timerInterval' = "cleared"
               /\ lastTick' = [now |-> now, computed |-> FALSE]
          ELSE /\ display' \in {render(b) : b \in {breakdown(tz, now, launchDate)}}
               /\ lastTick' = [now |-> now, computed |-> TRUE]
               /\ UNCHANGED timerInterval
    /\ UNCHANGED <<tz, launchDateString, serverTime, launchDate, elapsed, timerEl>>
    /\ UNCHANGED besidesCountdown

CountdownNext ==
    \/ \E delay \in Delays : Elapse(delay)
    \/ Tick

Countdown == CountdownInit /\ [][CountdownNext]_countdownVars

\* ------------------------------------------------------------------------
\* The drop-rate browser (src/droplist.js)
\* ------------------------------------------------------------------------
\* the drops read from the mob and item name files
Drop(item, mob) == [item |-> item, mob |-> mob]

DropFiles ==
    { << Drop(<<"B", "o", "w">>, <<"R", "a", "t">>),
         Drop(<<"A", "d", "e", "n", "a">>, <<"B", "a", "t">>),
         Drop(<<"a", "r", "r", "o", "w">>, <<"R", "a", "t">>),
         Drop(<<"W", "a", "n", "d">>, <<"b", "a", "t">>) >>,
      << Drop(<<"b", "o", "w">>, <<"R", "a", "t">>),
         Drop(<<"B", "o", "w">>, <<"B", "a", "t">>),
         Drop(<<"A", "d", "e", "n", "a">>, <<"R", "a", "t">>) >> }

\* what the user types into the search box
SearchTexts == { <<>>, <<"a">>, <<"B">>, <<"o", "w">>, <<"r", "a", "t">> }

\* the state after the synchronous part of the DOMContentLoaded handler:
\* the properties are read, loadDropList waits for its files, the sort
\* buttons and the search box are wired
DroplistInit ==
    /\ sortState = [key |-> "item", order |-> "asc"]
    /\ fullDropList = <<>>
    /\ currentList = <<>>
    /\ sameArray = FALSE
    /\ currentPage = 1
    /\ itemsPerPage \in {2, 300}
    /\ isLoaded = FALSE
    /\ searchInput = <<>>
    /\ searchTimeout = FALSE
    /\ lastEvent = NoEvent
    /\ NoLedger
    /\ NoCountdown
    /\ NoModal
    /\ NoTabs
    /\ NoHosted

\* sortDropList(key, initialSort) on the list `list`; with isLoaded false it
\* returns at once
sortDropList(list, key, initialSort) ==
    IF ~isLoaded'
    THEN /\ currentList' = list
         /\ UNCHANGED <<sortState, currentPage>>
    ELSE /\ sortState' = [key |-> key, order |-> NextOrder(sortState, key, initialSort)]
         /\ currentList' = sort(list, key, IF sortState'.order = "asc" THEN 1 ELSE 0 - 1)
         /\ currentPage' = 1

\* loadDropList after its files arrived
LoadDropList(drops) ==
    /\ ~isLoaded
    /\ isLoaded' = TRUE
    /\ sameArray' = TRUE
    /\ sortDropList(fullDropList \o drops, sortState.key, TRUE)
    /\ fullDropList' = currentList'
    /\ lastEvent' = [kind |-> "load", before |-> sortState]
    /\ UNCHANGED <<itemsPerPage, searchInput, searchTimeout>>
    /\ UNCHANGED besidesDroplist

\* a click on 'Sort by Item' or 'Sort by Mob'
SortClick(key) ==
    /\ UNCHANGED isLoaded
    /\ sortDropList(currentList, key, FALSE)
    /\ fullDropList' = IF sameArray THEN currentList' ELSE fullDropList
    /\ lastEvent' = [kind |-> "sort", before |-> sortState]
    /\ UNCHANGED <<sameArray, itemsPerPage, searchInput, searchTimeout>>
    /\ UNCHANGED besidesDroplist

\* a keystroke in the search box: the debounced handler is (re)scheduled
TypeSearch(text) ==
    /\ text # searchInput
    /\ searchInput' = text
    /\ searchTimeout' = TRUE
    /\ UNCHANGED <<sortState, fullDropList, currentList, sameArray, currentPage,
                   itemsPerPage, isLoaded, lastEvent>>
    /\ UNCHANGED besidesDroplist

\* the debounced input handler, 300 ms after the last keystroke
SearchInput ==
    /\ searchTimeout
    /\ searchTimeout' = FALSE
    /\ UNCHANGED isLoaded
    /\ sameArray' = FALSE
    /\ sortDropList(filter(fullDropList, toLowerCase(searchInput)), sortState.key, TRUE)
    /\ lastEvent' = [kind |-> "search", before |-> sortState]
    /\ UNCHANGED <<fullDropList, itemsPerPage, searchInput>>
    /\ UNCHANGED besidesDroplist

\* the Previous (-1) and Next (+1) buttons of the pagination controls
TurnPage(by) ==
    /\ isLoaded
    /\ TotalPages(Len(currentList), itemsPerPage) > 1
    /\ currentPage + by \in 1..TotalPages(Len(currentList), itemsPerPage)
    /\ currentPage' = currentPage + by
    /\ lastEvent' = [kind |-> "page", before |-> sortState]
    /\ UNCHANGED <<sortState, fullDropList, currentList, sameArray, itemsPerPage,
                   isLoaded, searchInput, searchTimeout>>
    /\ UNCHANGED besidesDroplist

DroplistNext ==
    \/ \E drops \in DropFiles : LoadDropList(drops)
    \/ \E key \in {"item", "mob"} : SortClick(key)
    \/ \E text \in SearchTexts : TypeSearch(text)
    \/ SearchInput
    \/ \E by \in {0 - 1, 1} : TurnPage(by)

Droplist == DroplistInit /\ [][DroplistNext]_droplistVars

\* ------------------------------------------------------------------------
\* One Modal instance (src/modal.js)
\* ------------------------------------------------------------------------
\* the delays of the two timeouts, in milliseconds
OpenDelay == 10
HideDelay == 300

\* the times the user or the page lets pass between two events
Waits == {5, 100}

Timer(kind, left) == [kind |-> kind, left |-> left]

\* the time until the next pending timeout is due
NextDue(timers) == Min({timers[i].left : i \in 1..Len(timers)})

\* the pending timeouts after d milliseconds
Later(timers, d) == [i \in 1..Len(timers) |-> [timers[i] EXCEPT !.left = @ - d]]

ModalInit ==
    /\ NoModal
    /\ NoLedger
    /\ NoCountdown
    /\ NoDroplist
    /\ NoTabs
    /\ NoHosted

\* one more call of show, _handleConfirm or _handleCancel
ModalCall ==
    /\ modalCalls < MaxCalls
    /\ modalCalls' = modalCalls + 1
    /\ UNCHANGED besidesModal

\* Modal.close
close ==
    /\ modalOpen' = FALSE
    /\ modalListeners' = FALSE
    /\ modalTimers' = Append(modalTimers, Timer("hide", HideDelay))
    /\ UNCHANGED modalHidden

\* Modal.show: an open modal is only shaken
Show ==
    /\ ModalCall
    /\ IF modalOpen
       THEN UNCHANGED <<modalHidden, modalOpen, modalListeners, modalTimers>>
       ELSE /\ modalHidden' = FALSE
            /\ modalTimers' = Append(modalTimers, Timer("open", OpenDelay))
            /\ modalListeners' = TRUE
            /\ UNCHANGED modalOpen

\* _handleConfirm, reached through the click listener of the confirm button
Confirm ==
    /\ ModalCall
    /\ modalListeners
    /\ IF ~modalHidden
       THEN close
       ELSE UNCHANGED <<modalHidden, modalOpen, modalListeners, modalTimers>>

\* _handleCancel, reached through the cancel button, a click on the
\* background or the Escape key
Cancel ==
    /\ ModalCall
    /\ modalListeners
    /\ close

\* time passes while no timeout is due
Wait(d) ==
    /\ modalTimers # <<>>
    /\ d < NextDue(modalTimers)
    /\ modalTimers' = Later(modalTimers, d)
    /\ UNCHANGED <<modalHidden, modalOpen, modalListeners, modalCalls>>
    /\ UNCHANGED besidesModal

\* the timeout that is due next runs: the earliest set among those due first
TimerFires ==
    /\ modalTimers # <<>>
    /\ LET soonest == NextDue(modalTimers)
           i == Min({k \in 1..Len(modalTimers) : modalTimers[k].left = soonest})
       IN /\ modalTimers' = Later(Without(modalTimers, i), soonest)
          /\ IF modalTimers[i].kind = "open"
             THEN modalOpen' = TRUE /\ UNCHANGED modalHidden
             ELSE modalHidden' = TRUE /\ UNCHANGED modalOpen
    /\ UNCHANGED <<modalListeners, modalCalls>>
    /\ UNCHANGED besidesModal

ModalNext ==
    \/ Show
    \/ Confirm
    \/ Cancel
    \/ \E d \in Waits : Wait(d)
    \/ TimerFires

ModalSpec == ModalInit /\ [][ModalNext]_modalVars

\* ------------------------------------------------------------------------
\* Marketplace and dashboard open side by side on one localStorage
\* (src/marketplace.js, src/dashboard.js)
\* ------------------------------------------------------------------------
\* stacks with the identifiers first, first + 1, ...
IdsFrom(stacks, first) == [i \in 1..Len(stacks) |-> [stacks[i] EXCEPT !.id = first + i - 1]]

\* what localStorage 'characters' holds when the pages are opened
StoredCharacters ==
    { [c \in Chars |->
          IF c = "Knight"
          THEN IdsFrom(<<AdenaStack(5), Potion(3, NoEnchantment), Sword>>, 1)
          ELSE IdsFrom(<<AdenaStack(2), Potion(2, NoEnchantment)>>, 11)],
      [c \in Chars |->
          IF c = "Knight"
          THEN IdsFrom(<<Potion(2, NoEnchantment), TShirt, Potion(3, NoEnchantment)>>, 1)
          ELSE IdsFrom(<<AdenaStack(1), Sword>>, 11)] }

\* the first identifier generateUUID returns after the pages are opened
FirstUuid == 21

\* the quantities entered into the dialogs
TabQuantities == {1, 2}

\* both pages have just loaded: each parsed the stored characters
TabsInit ==
    /\ characters \in StoredCharacters
    /\ storedActive \in Chars
    /\ userCharacters = characters
    /\ activeCharacter = storedActive
    /\ sellDialog = NoDialog
    /\ dashCharacters = characters
    /\ detailView = FALSE
    /\ shown = NothingShown
    /\ uuid = FirstUuid
    /\ steps = 0
    /\ foreign = FALSE
    /\ tabOp = NoTabOp
    /\ before = [stored |-> characters, memory |-> userCharacters]
    /\ NoLedger
    /\ NoCountdown
    /\ NoDroplist
    /\ NoModal
    /\ NoHosted

\* every handler: what it was given, and the state it found
TabStep(page, kind, char, ref, name, quantity, result) ==
    /\ tabOp' = [page |-> page, kind |-> kind, char |-> char, ref |-> ref, name |-> name,
                 quantity |-> quantity, result |-> result, newId |-> uuid]
    /\ before' = [stored |-> characters, memory |-> userCharacters]
    /\ steps < MaxSteps
    /\ steps' = steps + 1
    /\ UNCHANGED besidesTabs

\* saveCharacterState for the characters in memory chars and the active name
saveCharacterState(chars, active) ==
    /\ storedActive' = active
    /\ characters' = [characters EXCEPT ![active] = chars[active]]
    /\ foreign' = TRUE

\* marketplace: Buy button -> dialogs -> buyItems
MkBuyItem(itemToBuy, quantity) ==
    /\ ~sellDialog.open
    /\ LET r == buyItems(userCharacters[activeCharacter], itemToBuy, quantity, uuid)
       IN IF r.ok
          THEN /\ userCharacters' = [userCharacters EXCEPT ![activeCharacter] = r.inv]
               /\ uuid' = IF Len(r.inv) > Len(userCharacters[activeCharacter])
                          THEN uuid + 1 ELSE uuid
               /\ saveCharacterState(userCharacters', activeCharacter)
               /\ TabStep("marketplace", "buy", activeCharacter, NoDialog, itemToBuy.name,
                          quantity, "ok")
          ELSE /\ UNCHANGED <<userCharacters, uuid, characters, storedActive, foreign>>
               /\ TabStep("marketplace", "buy", activeCharacter, NoDialog, itemToBuy.name,
                          quantity, "InsufficientFunds")
    /\ UNCHANGED <<activeCharacter, sellDialog, dashCharacters, detailView, shown>>

\* marketplace: Sell button of the stack id: handleSellItem finds the stack
\* and opens the quantity dialog, or the confirmation at once
MkOpenSell(id) ==
    /\ ~sellDialog.open
    /\ IndexOfId(userCharacters[activeCharacter], id) # 0
    /\ LET itemToSell == userCharacters[activeCharacter][IndexOfId(userCharacters[activeCharacter], id)]
       IN /\ HasSellButton(itemToSell)
          /\ sellDialog' = [open |-> TRUE, owner |-> activeCharacter, id |-> id, live |-> TRUE,
                            direct |-> (itemToSell.stackable = FALSE \/ itemToSell.quantity = 1),
                            copy |-> itemToSell]
          /\ TabStep("marketplace", "open", activeCharacter, sellDialog', itemToSell.name, 0, "ok")
    /\ UNCHANGED <<characters, storedActive, userCharacters, activeCharacter, dashCharacters,
                   detailView, shown, uuid, foreign>>

\* marketplace: the dialog is cancelled
MkCancelSell ==
    /\ sellDialog.open
    /\ sellDialog' = NoDialog
    /\ TabStep("marketplace", "cancel", activeCharacter, sellDialog, "", 0, "ok")
    /\ UNCHANGED <<characters, storedActive, userCharacters, activeCharacter, dashCharacters,
                   detailView, shown, uuid, foreign>>

\* marketplace: the dialogs are confirmed: sellItems with the stack the
\* handler found when the Sell button was clicked
MkConfirmSell(quantity) ==
    /\ sellDialog.open
    /\ sellDialog.direct => quantity = 1
    /\ userCharacters' = sellItemsOf(userCharacters, activeCharacter, sellDialog, quantity, uuid)
    /\ uuid' = IF AdenaCount(userCharacters'[activeCharacter])
                    > AdenaCount(userCharacters[activeCharacter])
               THEN uuid + 1 ELSE uuid
    /\ saveCharacterState(userCharacters', activeCharacter)
    /\ sellDialog' = NoDialog
    /\ TabStep("marketplace", "sell", activeCharacter, sellDialog, StackOf(userCharacters, sellDialog).name,
               quantity, "ok")
    /\ UNCHANGED <<activeCharacter, dashCharacters, detailView, shown>>

\* marketplace: the Combine button.  The stackable stacks are replaced by
\* copies, so a stack the Sell dialog holds is no longer in the inventory.
MkCombineItems ==
    /\ userCharacters' = [userCharacters EXCEPT
                             ![activeCharacter] = handleCombineItems(@, uuid)]
    /\ uuid' = uuid + CombineIds(userCharacters[activeCharacter])
    /\ saveCharacterState(userCharacters', activeCharacter)
    /\ sellDialog' =
          IF /\ sellDialog.open /\ sellDialog.live /\ sellDialog.owner = activeCharacter
             /\ StackOf(userCharacters, sellDialog).stackable = TRUE
          THEN [sellDialog EXCEPT !.live = FALSE, !.copy = StackOf(userCharacters, sellDialog)]
          ELSE sellDialog
    /\ TabStep("marketplace", "combine", activeCharacter, sellDialog, "", 0, "ok")
    /\ UNCHANGED <<activeCharacter, dashCharacters, detailView, shown>>

\* marketplace: another character is chosen in the character selector
MkSelectCharacter(name) ==
    /\ name # activeCharacter
    /\ activeCharacter' = name
    /\ saveCharacterState(userCharacters, name)
    /\ TabStep("marketplace", "select", name, sellDialog, "", 0, "ok")
    /\ UNCHANGED <<userCharacters, sellDialog, dashCharacters, detailView, shown, uuid>>

\* marketplace: the page is loaded again (initializeUserSession)
MkLoad ==
    /\ userCharacters' = characters
    /\ activeCharacter' = storedActive
    /\ sellDialog' = NoDialog
    /\ TabStep("marketplace", "load", storedActive, NoDialog, "", 0, "ok")
    /\ UNCHANGED <<characters, storedActive, dashCharacters, detailView, shown, uuid,
                   foreign>>

\* dashboard: the page is loaded again
DashLoad ==
    /\ dashCharacters' = characters
    /\ detailView' = FALSE
    /\ shown' = NothingShown
    /\ foreign' = FALSE
    /\ TabStep("dashboard", "load", "", NoDialog, "", 0, "ok")
    /\ UNCHANGED <<characters, storedActive, userCharacters, activeCharacter, sellDialog,
                   uuid>>

\* dashboard: Enter Game on the slot of the character name
EnterGame(name) ==
    /\ ~detailView
    /\ storedActive' = name
    /\ dashCharacters' = [dashCharacters EXCEPT ![name] = sortStorage(@)]
    /\ shown' = [name |-> name, inventory |-> dashCharacters'[name]]
    /\ detailView' = TRUE
    /\ TabStep("dashboard", "enter", name, NoDialog, "", 0, "ok")
    /\ UNCHANGED <<characters, userCharacters, activeCharacter, sellDialog, uuid,
                   foreign>>

\* dashboard: Back to character select
BackToSelect ==
    /\ detailView
    /\ detailView' = FALSE
    /\ TabStep("dashboard", "back", shown.name, NoDialog, "", 0, "ok")
    /\ UNCHANGED <<characters, storedActive, userCharacters, activeCharacter, sellDialog,
                   dashCharacters, shown, uuid, foreign>>

\* dashboard: [S] on the shown stack id -> prompt -> split of the stored
\* inventory, save, re-render
DashSplitItem(id, value) ==
    /\ detailView
    /\ IndexOfId(shown.inventory, id) # 0
    /\ HasSplitButton(shown.inventory[IndexOfId(shown.inventory, id)])
    /\ LET character == characters[shown.name]
           idx == IndexOfId(character, id)
       IN IF idx = 0 \/ character[IF idx = 0 THEN 1 ELSE idx].quantity <= 1
          THEN /\ value = 1
               /\ TabStep("dashboard", "split", shown.name, NoDialog, "", 0, "NotFound")
               /\ UNCHANGED <<characters, shown, uuid>>
          ELSE IF InvalidSplitQuantity(character[idx], value)
          THEN /\ TabStep("dashboard", "split", shown.name, NoDialog, character[idx].name,
                          value, "InvalidSplit")
               /\ UNCHANGED <<characters, shown, uuid>>
          ELSE /\ characters' = [characters EXCEPT
                                    ![shown.name] = splitItem(character, idx, value, uuid)]
               /\ uuid' = uuid + 1
               /\ shown' = [shown EXCEPT !.inventory = sortStorage(characters'[shown.name])]
               /\ TabStep("dashboard", "split", shown.name, NoDialog, character[idx].name,
                          value, "ok")
    /\ UNCHANGED <<storedActive, userCharacters, activeCharacter, sellDialog, dashCharacters,
                   detailView, foreign>>

TabsNext ==
    \/ \E itemToBuy \in marketGoods, quantity \in TabQuantities : MkBuyItem(itemToBuy, quantity)
    \/ \E id \in 1..(uuid - 1) : MkOpenSell(id)
    \/ MkCancelSell
    \/ \E quantity \in TabQuantities : MkConfirmSell(quantity)
    \/ MkCombineItems
    \/ \E name \in Chars : MkSelectCharacter(name)
    \/ MkLoad
    \/ DashLoad
    \/ \E name \in Chars : EnterGame(name)
    \/ BackToSelect
    \/ \E id \in 1..(uuid - 1), value \in TabQuantities : DashSplitItem(id, value)

Tabs == TabsInit /\ [][TabsNext]_tabVars

\* ------------------------------------------------------------------------
\* Storage panel of the hosted dashboard (src/unnamed/part_004)
\* ------------------------------------------------------------------------
\* inventories of the character document when the detail view is opened
StoredInventories ==
    { IdsFrom(<<Potion(3, NoEnchantment), Sword, Potion(2, NoEnchantment)>>, 1),
      IdsFrom(<<AdenaStack(5), Potion(2, NoEnchantment), AdenaStack(2)>>, 1),
      IdsFrom(<<Arrows(4), TShirt>>, 1) }

\* what the user types into the prompt of a split
PromptValues == {1, 2}

\* one call of handleStorageClick: the button, the stack of a split button,
\* the number typed into the prompt, the document the call has read and how
\* far the call has got: "getDoc" (waiting for the document), "read" (the
\* document is there, the call goes on from it), "done"
Click(button, itemId) ==
    [button |-> button, itemId |-> itemId, quantityToSplit |-> 0, inventory |-> <<>>,
     at |-> "getDoc"]

\* the identifier generateUUID gives the split of the n-th click
SplitId(n) == 100 + n

\* the detail view of a character has just been shown
HostedInit ==
    /\ charDoc \in StoredInventories
    /\ charDocStart = charDoc
    /\ clicks = <<>>
    /\ NoLedger
    /\ NoCountdown
    /\ NoDroplist
    /\ NoModal
    /\ NoTabs

\* a click on [S] of a shown stack or on Combine: handleStorageClick runs
\* up to its await getDoc
StorageClick(button, itemId) ==
    /\ Len(clicks) < MaxClicks
    /\ \/ button = "combine" /\ itemId = 0
       \/ /\ button = "split"
          /\ IndexOfId(charDocStart, itemId) # 0
          /\ HasSplitButton(charDocStart[IndexOfId(charDocStart, itemId)])
    /\ clicks' = Append(clicks, Click(button, itemId))
    /\ UNCHANGED <<charDoc, charDocStart>>
    /\ UNCHANGED besidesHosted

\* getDoc of the n-th call resolves with the document as it is now
GetDocResolves(n) ==
    /\ n \in 1..Len(clicks)
    /\ clicks[n].at = "getDoc"
    /\ clicks' = [clicks EXCEPT ![n].inventory = charDoc, ![n].at = "read"]
    /\ UNCHANGED <<charDoc, charDocStart>>
    /\ UNCHANGED besidesHosted

\* what the n-th call passes to updateDoc, computed from the document it
\* read; the document it read when it returns without an update
Payload(call, n) ==
    IF call.button = "combine" THEN combineStacks(call.inventory)
    ELSE IF \/ IndexOfId(call.inventory, call.itemId) = 0
            \/ call.inventory[IndexOfId(call.inventory, call.itemId)].quantity <= 1
            \/ InvalidSplitQuantity(call.inventory[IndexOfId(call.inventory, call.itemId)],
                                    call.quantityToSplit)
    THEN call.inventory
    ELSE splitItem(call.inventory, IndexOfId(call.inventory, call.itemId),
                   call.quantityToSplit, SplitId(n))

\* the n-th call returns without calling updateDoc
Returns(call) ==
    /\ call.button = "split"
    /\ \/ IndexOfId(call.inventory, call.itemId) = 0
       \/ call.inventory[IndexOfId(call.inventory, call.itemId)].quantity <= 1
       \/ InvalidSplitQuantity(call.inventory[IndexOfId(call.inventory, call.itemId)],
                               call.quantityToSplit)

\* the n-th call goes on after its getDoc: the prompt of a split, the new
\* inventory, updateDoc.  The write is visible to every later getDoc.
UpdateDoc(n, value) ==
    /\ n \in 1..Len(clicks)
    /\ clicks[n].at = "read"
    /\ clicks[n].button = "combine" => value = 0
    /\ clicks[n].button = "split" => value \in PromptValues
    /\ clicks' = [clicks EXCEPT ![n].quantityToSplit = value, ![n].at = "done"]
    /\ charDoc' = IF Returns(clicks'[n]) THEN charDoc ELSE Payload(clicks'[n], n)
    /\ UNCHANGED charDocStart
    /\ UNCHANGED besidesHosted

HostedNext ==
    \/ \E button \in {"split", "combine"}, itemId \in 0..3 : StorageClick(button, itemId)
    \/ \E n \in 1..MaxClicks : GetDocResolves(n)
    \/ \E n \in 1..MaxClicks, value \in PromptValues \cup {0} : UpdateDoc(n, value)

Hosted == HostedInit /\ [][HostedNext]_hostedVars

\* ------------------------------------------------------------------------
\* Properties
\* ------------------------------------------------------------------------
Ids(stacks) == {stacks[i].id : i \in 1..Len(stacks)}

\* the catalog entry the last buy was about
BoughtEntry == CHOOSE g \in marketGoods : g.name = op.name

\* the stack (as it was before the operation) the last sell or split was about
Target == pre[IndexOfId(pre, op.id)]

\* C1: as long as every quantity entered satisfied its precondition, every
\* stack of the inventory, the Adena stack included, has quantity >= 1.
C1_QuantityAtLeastOne ==
    inputsValid => \A i \in 1..Len(inv) : JsGe(inv[i].quantity, 1)

\* C2: the inventory never holds more than one Adena stack.
C2_AtMostOneCurrencyStack == AdenaCount(inv) <= 1

\* C3: a buy whose total price exceeds the balance fails with
\* InsufficientFunds and leaves the whole inventory as it was.
C3_InsufficientFundsUnchanged ==
    (op.kind = "buy" /\ JsLt(Balance(pre), JsMul(BoughtEntry.price, op.quantity)))
        => (op.result = "InsufficientFunds" /\ inv = pre)

\* C3 witness: a buy was refused although the character holds some Adena.
C3_Witness ==
    /\ op.kind = "buy"
    /\ op.result = "InsufficientFunds"
    /\ Balance(pre) > 0
    /\ op.quantity >= 1

\* C4: a successful buy of a positive quantity takes exactly price * quantity
\* from the Adena stack and adds exactly bundle * quantity units, to the first
\* stackable stack of that name if there is one, else as a new stack with a
\* fresh identifier; every other stack is untouched.
C4_BuyEffect ==
    (op.kind = "buy" /\ op.result = "ok" /\ inputsValid) =>
        LET e == BoughtEntry
            cost == e.price * op.quantity
            units == (IF e.quantity = 0 THEN 1 ELSE e.quantity) * op.quantity
            a == AdenaIndex(pre)
            x == StackableIndex(pre, e.name)
        IN /\ a # 0
           /\ inv[a] = [pre[a] EXCEPT !.quantity = @ - cost]
           /\ \A i \in 1..Len(pre) : i \notin {a, x} => inv[i] = pre[i]
           /\ IF x # 0
              THEN /\ Len(inv) = Len(pre)
                   /\ inv[x] = [pre[x] EXCEPT !.quantity = @ + units]
              ELSE /\ Len(inv) = Len(pre) + 1
                   /\ inv[Len(inv)].name = e.name
                   /\ inv[Len(inv)].quantity = units
                   /\ inv[Len(inv)].id \notin Ids(pre)

\* C4 witness: two Arrow bundles were bought into a new stack.
C4_Witness ==
    /\ op.kind = "buy"
    /\ op.result = "ok"
    /\ inputsValid
    /\ op.name = "Arrow"
    /\ op.quantity = 2
    /\ Len(inv) = Len(pre) + 1
    /\ inv[Len(inv)].quantity = 2 * ArrowBundle

\* C5: a sell aimed at a stack whose droppable is false is refused as
\* NotSellable and changes nothing.
C5_NotSellableUnchanged ==
    (op.kind = "sell" /\ Target.droppable = "false")
        => (op.result = "NotSellable" /\ inv = pre)

\* C5 witness: a sell of an undroppable stack was attempted.
C5_Witness ==
    /\ op.kind = "sell"
    /\ op.result = "NotSellable"
    /\ Target.droppable = "false"

\* C6: a sell of q units, 1 <= q <= the stack's quantity, removes the stack
\* when q is the whole quantity and decrements it by q otherwise, and credits
\* price * q to the Adena stack, which is created with that amount when the
\* inventory has none; every other stack is untouched.
C6_SellEffect ==
    (/\ op.kind = "sell" /\ op.result = "ok" /\ inputsValid
     /\ op.quantity >= 1 /\ op.quantity <= Target.quantity) =>
        LET i == IndexOfId(pre, op.id)
            credit == pre[i].price * op.quantity
            rest == IF op.quantity = pre[i].quantity
                    THEN Without(pre, i)
                    ELSE [pre EXCEPT ![i].quantity = @ - op.quantity]
            a == AdenaIndex(rest)
        IN IF a # 0
           THEN inv = [rest EXCEPT ![a].quantity = @ + credit]
           ELSE /\ Len(inv) = Len(rest) + 1
                /\ SubSeq(inv, 1, Len(rest)) = rest
                /\ inv[Len(inv)].name = Adena
                /\ inv[Len(inv)].quantity = credit

\* C6 witness: a whole stack of several units was sold by a character
\* without an Adena stack, which created one holding the proceeds.
C6_Witness ==
    /\ op.kind = "sell"
    /\ op.result = "ok"
    /\ inputsValid
    /\ op.quantity > 1
    /\ op.quantity = Target.quantity
    /\ AdenaCount(pre) = 0
    /\ op.id \notin Ids(inv)
    /\ Balance(inv) = Target.price * op.quantity

\* C7: every quantity that reaches buyItems or sellItems is a positive
\* integer, and for a sell it does not exceed the stack's quantity.
C7_QuantityValidated ==
    (op.kind \in {"buy", "sell"} /\ op.result \in {"ok", "InsufficientFunds"}) =>
        /\ JsGe(op.quantity, 1)
        /\ op.kind = "sell" => JsLe(op.quantity, Target.quantity)

\* C8: a split of a stack whose splittable is false, or by a quantity that
\* is not at least 1 and below the stack's quantity, fails and leaves the
\* inventory as it was.
C8_InvalidSplitUnchanged ==
    (op.kind = "split" /\ (\/ Target.splittable = "false"
                           \/ ~JsGe(op.quantity, 1)
                           \/ op.quantity >= Target.quantity))
        => (op.result \in {"InvalidSplit", "NotOffered"} /\ inv = pre)

\* C8 witness: splitting off the entire stack was rejected.
C8_Witness ==
    /\ op.kind = "split"
    /\ op.result = "InvalidSplit"
    /\ op.quantity = Target.quantity
    /\ inv = pre

\* C9: a successful split by q leaves the source stack under its identifier
\* with q units less, appends one stack with a fresh identifier, quantity q
\* and the source's other fields, and touches no other stack.
C9_SplitEffect ==
    (op.kind = "split" /\ op.result = "ok") =>
        LET i == IndexOfId(pre, op.id)
            q == op.quantity
        IN /\ q >= 1
           /\ q < pre[i].quantity
           /\ Len(inv) = Len(pre) + 1
           /\ inv[i] = [pre[i] EXCEPT !.quantity = @ - q]
           /\ \A j \in 1..Len(pre) : j # i => inv[j] = pre[j]
           /\ inv[Len(inv)].id \notin Ids(pre)
           /\ inv[Len(inv)] = [pre[i] EXCEPT !.id = inv[Len(inv)].id, !.quantity = q]

\* C9 witness: 2 units were split off a stack of 3 that is not the only stack.
C9_Witness ==
    /\ op.kind = "split"
    /\ op.result = "ok"
    /\ op.quantity = 2
    /\ Target.quantity = 3
    /\ Len(pre) > 1

\* the stackable stacks of an inventory
Stackables(stacks) == SelectSeq(stacks, LAMBDA s : s.stackable = TRUE)

\* (name, enchantment with absent read as 0) of a stack
GroupOf(s) == <<s.name, IF s.enchantment = NoEnchantment THEN 0 ELSE s.enchantment>>

RECURSIVE TotalOver(_, _)
\* sum of the quantities of stacks at the indices in S
TotalOver(stacks, S) ==
    IF S = {} THEN 0
    ELSE LET i == CHOOSE k \in S : TRUE
         IN stacks[i].quantity + TotalOver(stacks, S \ {i})

\* C10: combine keeps the non-stackable stacks unchanged and in order, and
\* replaces the stackable ones by one stack per (name, enchantment) group
\* holding the group's total quantity and the first-seen stack's other fields.
C10_CombineEffect ==
    (op.kind = "combine" /\ inputsValid) =>
        LET old == Stackables(pre)
            new == Stackables(inv)
        IN /\ SelectSeq(inv, LAMBDA s : s.stackable # TRUE)
                = SelectSeq(pre, LAMBDA s : s.stackable # TRUE)
           /\ {GroupOf(new[k]) : k \in 1..Len(new)} = {GroupOf(old[k]) : k \in 1..Len(old)}
           /\ \A k, l \in 1..Len(new) : GroupOf(new[k]) = GroupOf(new[l]) => k = l
           /\ \A k \in 1..Len(new) :
                LET members == {m \in 1..Len(old) : GroupOf(old[m]) = GroupOf(new[k])}
                    first == old[Min(members)]
                IN new[k] = [first EXCEPT !.id = new[k].id,
                                          !.quantity = TotalOver(old, members)]

\* C10 witness: two stackable stacks of one group, the first without an
\* enchantment field and the second with enchantment 0, were merged into a
\* stack that has the first one's (absent) enchantment and both quantities.
C10_Witness ==
    /\ op.kind = "combine"
    /\ inputsValid
    /\ Len(inv) < Len(pre)
    /\ \E k, l \in 1..Len(pre) :
         /\ k < l
         /\ pre[k].stackable /\ pre[l].stackable
         /\ pre[k].name = pre[l].name
         /\ pre[k].enchantment = NoEnchantment
         /\ pre[l].enchantment = 0
         /\ \E m \in 1..Len(inv) :
              /\ inv[m].enchantment = NoEnchantment
              /\ inv[m].quantity = pre[k].quantity + pre[l].quantity

\* two inventories that differ at most in the identifiers of their stacks
SameUpToIds(a, b) ==
    /\ Len(a) = Len(b)
    /\ \A i \in 1..Len(a) : [a[i] EXCEPT !.id = 0] = [b[i] EXCEPT !.id = 0]

\* C11 as stated: a combine right after a combine returns the very same
\* inventory, combine(combine(inventory)) == combine(inventory).
C11_CombineIdempotent ==
    (op.kind = "combine" /\ prev.op.kind = "combine") => inv = pre

\* C11 as amended: a combine right after a combine changes nothing but the
\* identifiers of the stackable stacks, which are generated anew.
C11_CombineIdempotentUpToIds ==
    (op.kind = "combine" /\ prev.op.kind = "combine") =>
        /\ SameUpToIds(inv, pre)
        /\ SelectSeq(inv, LAMBDA s : s.stackable # TRUE)
             = SelectSeq(pre, LAMBDA s : s.stackable # TRUE)

\* C11 witness: the first combine merged stacks, the second one kept every
\* stack but gave the stackable ones new identifiers.
C11_Witness ==
    /\ op.kind = "combine"
    /\ prev.op.kind = "combine"
    /\ Len(pre) < Len(prev.pre)
    /\ SameUpToIds(inv, pre)
    /\ inv # pre

\* the stack the operation before the last was about
PrevTarget == prev.pre[IndexOfId(prev.pre, prev.op.id)]

\* indices of the stacks of one (name, enchantment) group
GroupMembers(stacks, key) == {i \in 1..Len(stacks) : GroupOf(stacks[i]) = key}

\* C12: a split of q units, 1 <= q < quantity, off a stackable stack that is
\* the only one of its (name, enchantment) group, followed by a combine,
\* leaves exactly one stack of that group, holding the original quantity.
C12_SplitThenCombineRestores ==
    (/\ op.kind = "combine"
     /\ prev.op.kind = "split"
     /\ prev.op.result = "ok"
     /\ PrevTarget.stackable = TRUE
     /\ Cardinality(GroupMembers(prev.pre, GroupOf(PrevTarget))) = 1) =>
        LET key == GroupOf(PrevTarget)
            now == GroupMembers(inv, key)
        IN /\ prev.op.quantity >= 1
           /\ prev.op.quantity < PrevTarget.quantity
           /\ Cardinality(now) = 1
           /\ \A i \in now :
                inv[i] = [PrevTarget EXCEPT !.id = inv[i].id]

\* C12 witness: 1 unit was split off the only Red Potion stack of its
\* enchantment level and the combine brought the two parts together again.
C12_Witness ==
    /\ op.kind = "combine"
    /\ prev.op.kind = "split"
    /\ prev.op.result = "ok"
    /\ prev.op.quantity = 1
    /\ PrevTarget.name = "Red Potion"
    /\ PrevTarget.quantity = 3
    /\ Cardinality(GroupMembers(prev.pre, GroupOf(PrevTarget))) = 1
    /\ Len(pre) = Len(prev.pre) + 1
    /\ Cardinality(GroupMembers(inv, GroupOf(PrevTarget))) = 1

\* total quantity of the stacks with a given name
TotalByName(stacks, name) ==
    TotalOver(stacks, {i \in 1..Len(stacks) : stacks[i].name = name})

\* C13: a sell of q units followed at once by a buy of q units of the same
\* item, sold by the market at the price the stack carries and without a
\* bundle size, succeeds and restores the Adena balance and the total
\* quantity held of that item.
C13_SellThenBuyRestores ==
    (/\ op.kind = "buy"
     /\ prev.op.kind = "sell"
     /\ prev.op.result = "ok"
     /\ inputsValid
     /\ op.name = prev.op.name
     /\ op.quantity = prev.op.quantity
     /\ BoughtEntry.quantity = 0
     /\ BoughtEntry.price = PrevTarget.price) =>
        /\ op.result = "ok"
        /\ Balance(inv) = Balance(prev.pre)
        /\ TotalByName(inv, op.name) = TotalByName(prev.pre, op.name)

\* C13 witness: 2 Red Potions were sold and 2 Red Potions bought back.
C13_Witness ==
    /\ op.kind = "buy"
    /\ op.result = "ok"
    /\ prev.op.kind = "sell"
    /\ prev.op.result = "ok"
    /\ inputsValid
    /\ op.name = "Red Potion"
    /\ prev.op.name = "Red Potion"
    /\ op.quantity = 2
    /\ prev.op.quantity = 2
    /\ Balance(pre) = Balance(prev.pre) + 4
    /\ Balance(inv) = Balance(prev.pre)

\* enchantment level of a stack, an absent field counted as 0
Level(s) == IF s.enchantment = NoEnchantment THEN 0 ELSE s.enchantment

\* enchantment levels found among the stackable stacks of a name
LevelsOf(stacks, name) ==
    {Level(stacks[i]) : i \in {j \in 1..Len(stacks) :
                                  stacks[j].stackable = TRUE /\ stacks[j].name = name}}

\* C14: no operation moves units into a stack of another enchantment level:
\* a buy adds its units (which carry no enchantment) only to a stack of
\* level 0, and a combine, the marketplace's as well as the hosted-store
\* dashboard's on the same inventory, keeps one stack per level of a name.
C14_NoMergeAcrossEnchantments ==
    /\ (op.kind = "buy" /\ op.result = "ok" /\ inputsValid
            /\ StackableIndex(pre, op.name) # 0)
          => Level(pre[StackableIndex(pre, op.name)]) = 0
    /\ op.kind = "combine" =>
          \A i \in 1..Len(pre) :
             pre[i].stackable = TRUE =>
                /\ LevelsOf(inv, pre[i].name) = LevelsOf(pre, pre[i].name)
                /\ LevelsOf(combineStacks(pre), pre[i].name) = LevelsOf(pre, pre[i].name)

\* C15: once a callback has seen now >= launchDate, the timer element
\* shows the live state and the interval is cleared, so that no callback
\* runs any more.
C15_StopsAtTarget ==
    (ticks > 0 /\ DateGe(lastTick.now, launchDate))
        => (display = Live /\ timerInterval = "cleared")

\* C16: a countdown started with launchDate <= serverTime reports the live
\* state with its first callback and never computes a breakdown.
C16_PastTargetCompletesAtOnce ==
    (DateLe(launchDate, serverTime) /\ ticks > 0)
        => (display = Live /\ ~lastTick.computed)

\* C17: a rendered breakdown never holds a negative value, and the cursor
\* the year and month loops end on is not after the launch date.
C17_NoNegativeDuration ==
    display.kind = "breakdown" =>
        /\ DateLe(display.temp, launchDate)
        /\ display.years >= 0 /\ display.months >= 0 /\ display.days >= 0
        /\ display.hours >= 0 /\ display.minutes >= 0 /\ display.seconds >= 0

\* one calendar year, one calendar month later (invalid dates roll over)
AdvanceYear(zone, t) == setFullYear(zone, t, LocalFields(zone, t).year + 1)
AdvanceMonth(zone, t) == setMonth(zone, t, LocalFields(zone, t).month + 1)

\* n advances one after the other
RECURSIVE AdvanceYears(_, _, _)
AdvanceYears(zone, t, n) ==
    IF n <= 0 THEN t
    ELSE TheOne({AdvanceYears(zone, next, n - 1) : next \in {AdvanceYear(zone, t)}})

RECURSIVE AdvanceMonths(_, _, _)
AdvanceMonths(zone, t, n) ==
    IF n <= 0 THEN t
    ELSE TheOne({AdvanceMonths(zone, next, n - 1) : next \in {AdvanceMonth(zone, t)}})

\* the instant the displayed values lead to, starting from the callback's now
Recomposed ==
    LET cursor == AdvanceMonths(tz, AdvanceYears(tz, lastTick.now, display.years),
                                display.months)
    IN [cursor EXCEPT !.s = @ + display.days * 86400 + display.hours * 3600
                              + display.minutes * 60 + display.seconds]

\* C18 as stated: the displayed values, re-composed from now, land exactly
\* on the launch date.
C18_RoundTripExact ==
    display.kind = "breakdown" => Recomposed = launchDate

\* C18 as amended: the displayed values, re-composed from now, land on the
\* launch date less the sub-second part of the remaining time, that is
\* within the last second up to the launch date, and exactly on it when now
\* and the launch date have the same milliseconds.
C18_RoundTripWithinSecond ==
    display.kind = "breakdown" =>
        /\ DateLe(Recomposed, launchDate)
        /\ ~DateLe(AddMs(Recomposed, 1000), launchDate)
        /\ lastTick.now.ms = launchDate.ms => Recomposed = launchDate

\* C18 witness: a breakdown with whole years, months and days was rendered
\* at a now whose milliseconds differ from the launch date's.
C18_Witness ==
    /\ display.kind = "breakdown"
    /\ display.years >= 1
    /\ display.months >= 1
    /\ display.days >= 1
    /\ lastTick.now.ms # launchDate.ms
    /\ Recomposed # launchDate
    /\ DateLe(Recomposed, launchDate)

\* the reference algorithm: count the advances that stay <= target
RECURSIVE RefYears(_, _, _)
RefYears(zone, cursor, target) ==
    TheOne({ IF DateLe(next, target) THEN 1 + RefYears(zone, next, target) ELSE 0
             : next \in {AdvanceYear(zone, cursor)} })

RECURSIVE RefMonths(_, _, _)
RefMonths(zone, cursor, target) ==
    TheOne({ IF DateLe(next, target) THEN 1 + RefMonths(zone, next, target) ELSE 0
             : next \in {AdvanceMonth(zone, cursor)} })

\* target - cursor in whole seconds (rounded down)
SecondsBetween(cursor, target) == DateDiff(target, cursor).s

\* C19: the rendered values are those of the reference algorithm, and
\* now = 2025-01-15T00:00:00, launch date = 2027-03-20T06:30:15 give
\* 2 years, 2 months, 5 days, 6 hours, 30 minutes, 15 seconds.
C19_EqualsReference ==
    display.kind = "breakdown" =>
        LET now == lastTick.now
            years == RefYears(tz, now, launchDate)
            afterYears == AdvanceYears(tz, now, years)
            months == RefMonths(tz, afterYears, launchDate)
            cursor == AdvanceMonths(tz, afterYears, months)
            rest == SecondsBetween(cursor, launchDate)
        IN /\ display.years = years
           /\ display.months = months
           /\ display.days = rest \div 86400
           /\ display.hours = (rest % 86400) \div 3600
           /\ display.minutes = (rest % 3600) \div 60
           /\ display.seconds = rest % 60
           /\ (/\ now = ParseDate(tz, 2025, 1, 15, 0, 0, 0, 0)
               /\ launchDate = ParseDate(tz, 2027, 3, 20, 6, 30, 15, 0))
                => (/\ display.years = 2 /\ display.months = 2 /\ display.days = 5
                    /\ display.hours = 6 /\ display.minutes = 30
                    /\ display.seconds = 15)

\* C20 as stated: less than one calendar month remains after the loops, and
\* months <= 11, days <= 30, hours <= 23, minutes <= 59, seconds <= 59.
C20_UnitsBounded ==
    display.kind = "breakdown" =>
        /\ ~DateLe(AdvanceMonth(tz, display.temp), launchDate)
        /\ display.months <= 11 /\ display.days <= 30 /\ display.hours <= 23
        /\ display.minutes <= 59 /\ display.seconds <= 59

\* C20 as amended: less than one calendar month remains after the loops, and
\* months <= 11, days <= 31, hours <= 23, minutes <= 59, seconds <= 59, with
\* 31 days only when the clocks are set back between the cursor and the
\* launch date.
C20_UnitsBoundedSummerTime ==
    display.kind = "breakdown" =>
        /\ ~DateLe(AdvanceMonth(tz, display.temp), launchDate)
        /\ display.months <= 11 /\ display.days <= 31 /\ display.hours <= 23
        /\ display.minutes <= 59 /\ display.seconds <= 59
        /\ display.days = 31 =>
              Offset(tz, display.temp.s) > Offset(tz, launchDate.s)

\* C20 witness: 31 days are shown for a month in which summer time ends.
C20_Witness ==
    /\ display.kind = "breakdown"
    /\ display.months = 0
    /\ display.days = 31
    /\ display.hours = 0
    /\ Offset(tz, display.temp.s) > Offset(tz, launchDate.s)

\* the configured value is a date-time text
IsTimestamp(v) == v.type = "string" /\ IsDateText(v.text)

\* C21: when the configured launch date is missing (empty) or is not a
\* date-time, the countdown is not started: no interval is set, no callback
\* runs, and the timer element shows neither a breakdown nor the live state.
C21_UnusableTargetNeverStarts ==
    ~IsTimestamp(launchDateString)
        => (timerInterval = "none" /\ ticks = 0 /\ display = NoDisplay)

\* the characters 0..9
DigitChars == {"0", "1", "2", "3", "4", "5", "6", "7", "8", "9"}

\* C25: in a rendered breakdown the months, days, hours, minutes and
\* seconds are shown as exactly two digits, and the years are shown
\* without padding (0 years as "0").
C25_TwoDigitsExceptYears ==
    display.kind = "breakdown" =>
        /\ \A i \in 2..6 :
              /\ Len(display.values[i]) = 2
              /\ \A k \in 1..2 : display.values[i][k] \in DigitChars
        /\ \A k \in 1..Len(display.values[1]) : display.values[1][k] \in DigitChars
        /\ Len(display.values[1]) > 1 => display.values[1][1] # "0"
        /\ display.years = 0 => display.values[1] = <<"0">>

\* the list is in the order of the key and direction of state
SortedBy(list, state) ==
    \A i \in 1..(Len(list) - 1) :
        Compare(list[i], list[i + 1], state.key,
                IF state.order = "asc" THEN 1 ELSE 0 - 1) <= 0

\* C26: after the search handler ran, the sort key and direction are those
\* from before it, and the filtered list is sorted by them.
C26_SearchKeepsDirection ==
    (lastEvent.kind = "search" /\ isLoaded)
        => (sortState = lastEvent.before /\ SortedBy(currentList, lastEvent.before))

\* C27: whatever the quantity dialog delivers, every Adena stack holds a
\* number that is not negative after each buy and sell.
C27_BalanceNeverNegative ==
    \A i \in 1..Len(inv) : inv[i].name = Adena => JsGe(inv[i].quantity, 0)

\* C30: a modal whose 'open' class is set and whose listeners are attached
\* never has the class 'hidden'.
C30_OpenModalNeverHidden == ~(modalOpen /\ modalListeners /\ modalHidden)

\* the marketplace operation of the last handler run, applied to an
\* inventory
Applied(inventory) ==
    IF tabOp.kind = "buy"
    THEN buyItems(inventory, TheOne({g \in marketGoods : g.name = tabOp.name}), tabOp.quantity,
                  tabOp.newId).inv
    ELSE IF tabOp.kind = "combine"
    THEN handleCombineItems(inventory, tabOp.newId)
    ELSE sellItems(inventory, IndexOfId(inventory, tabOp.ref.id), tabOp.quantity, tabOp.newId)

\* the last handler run was a marketplace operation on a stack that is in
\* the active character's inventory and in the persisted one
MarketplaceOperation ==
    /\ tabOp.page = "marketplace"
    /\ tabOp.result = "ok"
    /\ \/ tabOp.kind \in {"buy", "combine"}
       \/ /\ tabOp.kind = "sell"
          /\ tabOp.ref.live
          /\ tabOp.ref.owner = tabOp.char
          /\ IndexOfId(before.stored[tabOp.char], tabOp.ref.id) # 0

\* C22: after a marketplace operation (buy, sell, combine) is saved, the
\* persisted inventory of the character is the operation applied to the
\* inventory that was persisted just before it, so a change another page
\* saved since the marketplace loaded is still there.
C22_AppliedToPersistedInventory ==
    MarketplaceOperation => characters[tabOp.char] = Applied(before.stored[tabOp.char])

\* the last handler run was a confirmed sale of a stack that was no longer
\* in the active character's inventory when the sale was applied
StaleSale ==
    /\ tabOp.page = "marketplace"
    /\ tabOp.kind = "sell"
    /\ IndexOfId(before.memory[tabOp.char], tabOp.ref.id) = 0

\* C24: a sale whose stack is no longer in the current inventory when it is
\* applied changes no stack and no balance, in memory or persisted.
C24_StaleReferenceChangesNothing ==
    StaleSale => userCharacters = before.memory /\ characters = before.stored

\* the last handler run was a confirmed sale of a stack that is still in the
\* inventory of the character it was opened for
LiveSale ==
    /\ tabOp.page = "marketplace"
    /\ tabOp.kind = "sell"
    /\ tabOp.ref.live
    /\ IndexOfId(before.memory[tabOp.ref.owner], tabOp.ref.id) # 0

\* C29: a confirmed sale takes the units from, and credits the Adena to, the
\* inventory of the character that owned the stack when the dialog was
\* opened, and leaves every other character's inventory alone.
C29_SaleCreditsOwner ==
    LiveSale =>
        /\ userCharacters[tabOp.ref.owner]
              = sellItems(before.memory[tabOp.ref.owner],
                          IndexOfId(before.memory[tabOp.ref.owner], tabOp.ref.id),
                          tabOp.quantity, tabOp.newId)
        /\ \A c \in Chars \ {tabOp.ref.owner} : userCharacters[c] = before.memory[c]

\* C28: while no other page has written since the dashboard was loaded, the
\* detail view shows the persisted inventory of its character (in the
\* order of the storage panel).
C28_DetailShowsPersisted ==
    (detailView /\ ~foreign) => shown.inventory = sortStorage(characters[shown.name])

\* the inventories the calls todo can leave when they run one after the
\* other, in any order, starting from the inventory doc
RECURSIVE OneAfterTheOther(_, _)
OneAfterTheOther(doc, todo) ==
    IF todo = {} THEN {doc}
    ELSE UNION { OneAfterTheOther(Payload([clicks[n] EXCEPT !.inventory = doc], n), todo \ {n})
                 : n \in todo }

\* every call of handleStorageClick has completed, and there were several
AllCompleted ==
    /\ Len(clicks) >= 2
    /\ \A n \in 1..Len(clicks) : clicks[n].at = "done"

\* C23: when the storage-panel operations triggered back-to-back have all
\* completed, the stored inventory is what they leave when they run one
\* after the other, in some order.
C23_OperationsAreAtomic ==
    AllCompleted => charDoc \in OneAfterTheOther(charDocStart, 1..Len(clicks))
====
